---- MODULE Spec2Model ----
(***************************************************************************)
(* A model of the connection-management core of so68/utils:                *)
(*   - RateLimiter            (src/socket/handler/handler.go)              *)
(*   - Websocket client       (src/socket/client/websocket.go)             *)
(*   - OptimizedHub           (src/socket/client/websocket.go, second part)*)
(*   - Hub                    (hub.go is not part of src/: its operations  *)
(*                             are modelled from spec.md section 4.1)      *)
(* Each component has its own specifications (SpecLimiter; SpecClient,     *)
(* SpecClientClose, SpecClientHooks and SpecClientConfig for the client;   *)
(* SpecOpt, SpecOptBroadcast, SpecOptListen, SpecOptMonitor and SpecPool   *)
(* for the OptimizedHub; SpecHub, SpecHubSend, SpecHubConcurrentSend,      *)
(* SpecHubStop, SpecHubQueue, SpecHubEvents and SpecHubDispatch for the    *)
(* Hub); the variables of the other components stay at their constructed   *)
(* value.                                                                  *)
(***************************************************************************)
EXTENDS Integers, Sequences, FiniteSets, TLC

\* ------------------------------------------------------------------ bounds
\* Last instant of the RateLimiter's discrete clock.
MaxTime == 6
\* Largest ticker interval handed to SetLimit, in clock units.
MaxInterval == 2
\* Handshake attempts the client's environment answers (successful or not).
MaxAttempts == 4
\* Handshakes that succeed.
MaxDials == 2
\* Frames the client's peer sends.
MaxMessages == 1
\* Transports handed to an OptimizedHub (calls of OptimizedAddConnection).
MaxOptConns == 2
\* Transports handed to a Hub (calls of AddConnection).
MaxHubConns == 3
\* Last instant of the hub's discrete clock.
MaxNow == 2
\* HubConfig.ConnectionTimeout, in clock units.
ConnectionTimeout == 1
\* Transports handed to an OptimizedHub that is broadcasting.
MaxBroadcastConns == 2
\* Calls of OptimizedBroadcastWithFilter.
MaxBroadcasts == 1
\* Transport writes of SendMessage calls.
MaxSends == 2
\* Transports handed to a Hub that is stopped later.
MaxStopConns == 2
\* Capacity of h.broadcastChan (make(chan []byte, 1000)), scaled down.
QueueCap == 2
\* Calls of Broadcast.
MaxOffers == 4
\* Transports handed to a Hub whose broadcast queue is in use.
MaxQueueConns == 1
\* Largest target set of a fan-out whose worker pool is followed.
MaxTargets == 11
\* Transports handed to a Hub whose events are followed.
MaxEventConns == 3
\* Largest frame a peer sends, in bytes.
MaxFrameSize == 3
\* Frames the loops of a hub read.
MaxFrames == 3
\* Transports handed to a Hub whose dispatch loops are followed.
MaxDispatchConns == 1
\* Transports handed to a hub whose callers send concurrently.
MaxSendConns == 1
\* Goroutines that call SendMessage concurrently.
MaxCallers == 2
\* Transports handed to a hub under the cleanup monitor.
MaxMonitorConns == 1

ConnIDs == {"a", "b"}
HubIDs == {"a", "b", "c"}
Roles == {"admin", "user"}
Intervals == 1..MaxInterval
None == 0 - 1

VARIABLES
    \* RateLimiter
    limits,       \* rl.limits: connID -> ticker
    rlNow,        \* wall clock
    rlLast,       \* the call (or clock step) that produced this state
    rlTicked,     \* history: connID -> a tick fired since the gate was installed or last admitted
    rlLastTrue,   \* history: connID -> instant of the gate's last admission, or None
    \* Websocket client
    config,       \* m.config (MaxRetries, RetryDelay, PingInterval, PingTimeout)
    beforeConnHandler, \* m.beforeConnHandler is set
    afterConnHandler,  \* m.afterConnHandler is set
    conn,         \* m.conn: 0 = nil, n = the transport of the n-th successful dial
    open,         \* the transports the client has dialed and nobody has closed
    isRunning,    \* m.isRunning
    retryCount,   \* m.retryCount
    ctxDone,      \* m.ctx has been cancelled
    listeners,    \* listenLoop goroutines: h -> how many are blocked reading transport h (0: at the top of the loop)
    pingers,      \* number of pingLoop goroutines
    reconnects,   \* number of delayed-reconnect goroutines that have not dialed yet
    messageCount, \* m.messageCount
    closing,      \* a Close call has cancelled the context and has not returned
    closePC,      \* where that Close call is: "transport", "forget", "wait" ("idle": no call)
    dials,        \* history: number of successful handshakes
    attempts,     \* history: number of handshake attempts
    starts,       \* history: number of Start calls
    clLast,       \* the call or goroutine step that produced this state
    \* Hub and OptimizedHub (package handler: the same fields, two sets of methods)
    hubConfig,    \* h.config (MaxConnections, 0 = unlimited)
    connections,  \* h.connections: connID -> Connection (the index of its transport in conns)
    conns,        \* every transport handed to the hub, in call order, with the Connection made for it
    adds,         \* OptimizedAddConnection calls between their capacity check and their insertion
    loops,        \* the Connections whose listen goroutine is running
    stats,        \* h.stats
    events,       \* what the event handler has been called with
    now,          \* wall clock
    bc,           \* the OptimizedBroadcastWithFilter call in progress, or the last one
    hubLast,      \* the call or goroutine step that produced this state
    \* Hub and OptimizedHub: message services and lifecycle
    broadcastChan, \* h.broadcastChan: the payloads queued by Broadcast, oldest first
    offered,      \* history: the Broadcast calls in order, each payload with whether it was queued
    fanned,       \* history: the payloads the dispatcher has fanned out, in order, each with its targets
    hubRun,       \* h.ctx and the connections' scopes, and how far a Stop call has come
    sent,         \* direct sends: the sent-message counter and the number of transport writes
    pool,         \* the worker pool of the OptimizedBroadcastWithFilter fan-out in progress
    \* Hub and OptimizedHub: inbound frames and the message handler
    rx,           \* the frames the loops have read (and when), the handler's invocations, the size limit
    \* OptimizedHub: the cleanup monitor's probes
    probes,       \* the transports a probe goroutine of optimizedCleanup is about to ping
    cleanupBatch, \* h.cleanupBatch: the ids the failed probes have queued
    dead,         \* the half-open transports: reads block, writes fail
    \* Hub: concurrent SendMessage calls
    calls         \* caller -> how far its SendMessage call has come

rlVars == <<limits, rlNow, rlLast, rlTicked, rlLastTrue>>
clVars == <<config, beforeConnHandler, afterConnHandler, conn, open, isRunning, retryCount, ctxDone, listeners, pingers,
            reconnects, messageCount, closing, closePC, dials, attempts, starts, clLast>>

hubVars == <<hubConfig, connections, conns, adds, loops, stats, events, now, bc, hubLast>>

svcVars == <<broadcastChan, offered, fanned, hubRun, sent, pool>>

rxVars == <<rx>>

monVars == <<probes, cleanupBatch, dead>>

sendVars == <<calls>>

vars == <<rlVars, clVars, hubVars, svcVars, rxVars, monVars, sendVars>>

\* What a step of one component leaves alone: the other components.
rlFrame == UNCHANGED <<clVars, hubVars, svcVars, rxVars, monVars, sendVars>>
clFrame == UNCHANGED <<rlVars, hubVars, svcVars, rxVars, monVars, sendVars>>
hubFrame == UNCHANGED <<rlVars, clVars, svcVars, rxVars, monVars, sendVars>>
svcFrame == UNCHANGED <<rlVars, clVars, rxVars, monVars, sendVars>>
rxFrame == UNCHANGED <<rlVars, clVars, svcVars, monVars, sendVars>>
monFrame == UNCHANGED <<rlVars, clVars, svcVars, rxVars, sendVars>>
sendFrame == UNCHANGED <<rlVars, clVars, rxVars, monVars>>

\* =================================================================== RateLimiter
\* A time.Ticker: `C` is its channel of capacity 1 (1 = a tick is buffered),
\* `next` the instant of its next tick. A tick that finds the channel full is dropped.
NewTicker(interval) == [interval |-> interval, next |-> rlNow + interval, C |-> 0]

\* NewRateLimiter: no gate installed.
RLInit ==
    /\ limits = << >>
    /\ rlNow = 0
    /\ rlLast = [op |-> "New", id |-> "", result |-> TRUE]
    /\ rlTicked = [id \in ConnIDs |-> FALSE]
    /\ rlLastTrue = [id \in ConnIDs |-> None]

\* SetLimit that hands the old gate's unused permit on to the new gate.
SetLimitKeepingPermit(connID, interval) ==
    /\ rlFrame
    /\ limits' = [id \in DOMAIN limits \cup {connID} |->
                    IF id = connID
                    THEN [NewTicker(interval) EXCEPT
                            !.C = IF connID \in DOMAIN limits THEN limits[connID].C ELSE 0]
                    ELSE limits[id]]
    /\ rlLast' = [op |-> "SetLimit", id |-> connID, result |-> TRUE]
    /\ rlTicked' = [rlTicked EXCEPT ![connID] = FALSE]
    /\ rlLastTrue' = [rlLastTrue EXCEPT ![connID] = None]
    /\ UNCHANGED rlNow

\* Install or replace the gate of connID (the old ticker is stopped and dropped).
SetLimit(connID, interval) ==
    /\ rlFrame
    /\ limits' = [id \in DOMAIN limits \cup {connID} |->
                    IF id = connID THEN NewTicker(interval) ELSE limits[id]]
    /\ rlLast' = [op |-> "SetLimit", id |-> connID, result |-> TRUE]
    /\ rlTicked' = [rlTicked EXCEPT ![connID] = FALSE]
    /\ rlLastTrue' = [rlLastTrue EXCEPT ![connID] = None]
    /\ UNCHANGED rlNow

\* Allow with a receive that leaves the tick in the channel.
AllowPeek(connID) ==
    /\ rlFrame
    /\ rlLast' = [op |-> "Allow", id |-> connID,
                  result |-> (connID \notin DOMAIN limits \/ limits[connID].C = 1)]
    /\ rlTicked' = [rlTicked EXCEPT ![connID] = IF rlLast'.result THEN FALSE ELSE @]
    /\ rlLastTrue' = [rlLastTrue EXCEPT ![connID] =
                        IF rlLast'.result /\ connID \in DOMAIN limits THEN rlNow ELSE @]
    /\ UNCHANGED <<limits, rlNow>>

\* Allow with a blocking receive: it waits for the tick.
AllowBlocking(connID) ==
    /\ rlFrame
    /\ connID \in DOMAIN limits => limits[connID].C = 1
    /\ limits' = [id \in DOMAIN limits |->
                    IF id = connID THEN [limits[id] EXCEPT !.C = 0] ELSE limits[id]]
    /\ rlLast' = [op |-> "Allow", id |-> connID, result |-> TRUE]
    /\ rlTicked' = [rlTicked EXCEPT ![connID] = FALSE]
    /\ rlLastTrue' = [rlLastTrue EXCEPT ![connID] =
                        IF connID \in DOMAIN limits THEN rlNow ELSE @]
    /\ UNCHANGED rlNow

\* Non-blocking receive from the ticker's channel: true iff a tick is buffered,
\* and the tick is consumed. No gate: always true.
Allow(connID) ==
    LET exists == connID \in DOMAIN limits
        got == exists /\ limits[connID].C = 1
    IN  /\ rlFrame
        /\ limits' = [id \in DOMAIN limits |->
                        IF id = connID /\ got THEN [limits[id] EXCEPT !.C = 0] ELSE limits[id]]
        /\ rlLast' = [op |-> "Allow", id |-> connID, result |-> (~exists \/ got)]
        /\ rlTicked' = [rlTicked EXCEPT ![connID] = IF got THEN FALSE ELSE @]
        /\ rlLastTrue' = [rlLastTrue EXCEPT ![connID] = IF got THEN rlNow ELSE @]
        /\ UNCHANGED rlNow

\* Stop and discard the gate of connID.
RemoveLimit(connID) ==
    /\ rlFrame
    /\ limits' = [id \in DOMAIN limits \ {connID} |-> limits[id]]
    /\ rlLast' = [op |-> "RemoveLimit", id |-> connID, result |-> TRUE]
    /\ rlTicked' = [rlTicked EXCEPT ![connID] = FALSE]
    /\ rlLastTrue' = [rlLastTrue EXCEPT ![connID] = None]
    /\ UNCHANGED rlNow

\* The clock advances by one unit; every ticker due at the new instant fires:
\* a non-blocking send on its channel (dropped when a tick is already buffered).
RLTick ==
    /\ rlFrame
    /\ rlNow < MaxTime
    /\ rlNow' = rlNow + 1
    /\ limits' = [id \in DOMAIN limits |->
                    IF limits[id].next = rlNow + 1
                    THEN [limits[id] EXCEPT !.C = 1, !.next = @ + limits[id].interval]
                    ELSE limits[id]]
    /\ rlTicked' = [id \in ConnIDs |->
                    IF id \in DOMAIN limits /\ limits[id].next = rlNow + 1
                    THEN TRUE ELSE rlTicked[id]]
    /\ rlLast' = [op |-> "Tick", id |-> "", result |-> TRUE]
    /\ UNCHANGED rlLastTrue

RLNext ==
    \/ \E id \in ConnIDs, i \in Intervals : SetLimit(id, i)
    \/ \E id \in ConnIDs : Allow(id)
    \/ \E id \in ConnIDs : RemoveLimit(id)
    \/ RLTick

\* =================================================================== Websocket client
\* The MaxRetries values a client is configured with (0 = unlimited).
RetryLimits == {0, 1, 3}

\* DefaultConfig(): MaxRetries 5.
DefaultMaxRetries == 5

\* DefaultConfig(): 5 retries, 5 s between them, a ping every 30 s, 10 s for the pong.
DefaultConfig ==
    [MaxRetries |-> DefaultMaxRetries, RetryDelay |-> 5, PingInterval |-> 30, PingTimeout |-> 10]

\* NewWebsocket followed by SetConfig: nothing dialed, no goroutine.
NewWebsocket(maxRetries) ==
    /\ config = [DefaultConfig EXCEPT !.MaxRetries = maxRetries]
    /\ beforeConnHandler = FALSE
    /\ afterConnHandler = FALSE
    /\ conn = 0
    /\ open = {}
    /\ isRunning = FALSE
    /\ retryCount = 0
    /\ ctxDone = FALSE
    /\ listeners = [h \in 0..(MaxDials + 1) |-> 0]
    /\ pingers = 0
    /\ reconnects = 0
    /\ messageCount = 0
    /\ closing = FALSE
    /\ closePC = "idle"
    /\ dials = 0
    /\ attempts = 0
    /\ starts = 0
    /\ clLast = [op |-> "New", ok |-> TRUE]

ClInit == \E r \in RetryLimits : NewWebsocket(r)

\* shouldRetry, on a given retry count.
shouldRetry(count) == config.MaxRetries = 0 \/ count < config.MaxRetries

\* A connect that forgets to close the transport when the after-connect hook fails.
connectLeak(err) ==
    CASE err = "before" ->
            UNCHANGED <<attempts, dials, conn, open, retryCount>>
      [] err = "dial" ->
            /\ attempts' = attempts + 1
            /\ retryCount' = retryCount + 1
            /\ UNCHANGED <<dials, conn, open>>
      [] OTHER ->
            /\ attempts' = attempts + 1
            /\ dials' = dials + 1
            /\ conn' = dials + 1
            /\ open' = (open \ {conn}) \cup {dials + 1}
            /\ retryCount' = 0

\* connect: the before-connect hook, one handshake, the after-connect hook. The
\* outcome `err` is the environment's: "" when connect returns nil, else the
\* step that failed. A failed before hook returns at once; a failed handshake
\* counts a retry; a successful handshake closes the stale transport, installs
\* the new one and resets the retry count, and a failed after hook then closes
\* the new transport (m.conn keeps pointing to it).
connect(err) ==
    CASE err = "before" ->
            UNCHANGED <<attempts, dials, conn, open, retryCount>>
      [] err = "dial" ->
            /\ attempts' = attempts + 1
            /\ retryCount' = retryCount + 1
            /\ UNCHANGED <<dials, conn, open>>
      [] err = "after" ->
            /\ attempts' = attempts + 1
            /\ dials' = dials + 1
            /\ conn' = dials + 1
            /\ open' = open \ {conn}
            /\ retryCount' = 0
      [] OTHER ->
            /\ attempts' = attempts + 1
            /\ dials' = dials + 1
            /\ conn' = dials + 1
            /\ open' = (open \ {conn}) \cup {dials + 1}
            /\ retryCount' = 0

\* The environment answers a connect: a hook that is set can fail, the handshake
\* can fail always and succeed within the bounds.
Handshakes ==
    {"dial"}
    \cup (IF dials < MaxDials THEN {""} ELSE {})
    \cup (IF beforeConnHandler THEN {"before"} ELSE {})
    \cup (IF afterConnHandler /\ dials < MaxDials THEN {"after"} ELSE {})

\* Start: connect once; on failure return the error, on success start the ping
\* and listen goroutines and set isRunning.
Start ==
    /\ clFrame
    /\ attempts < MaxAttempts
    /\ starts < MaxAttempts
    /\ ~closing
    /\ \E err \in Handshakes :
        /\ connect(err)
        /\ listeners' = IF err = "" THEN [listeners EXCEPT ![0] = @ + 1] ELSE listeners
        /\ pingers' = IF err = "" THEN pingers + 1 ELSE pingers
        /\ isRunning' = (isRunning \/ err = "")
        /\ clLast' = [op |-> "Start", ok |-> err = "", err |-> err]
    /\ starts' = starts + 1
    /\ UNCHANGED <<config, beforeConnHandler, afterConnHandler, ctxDone, reconnects, messageCount, closing, closePC>>

\* The deferred function of listenLoop, run by a loop that was in state h:
\* close and forget m.conn, then schedule a delayed reconnect if shouldRetry.
listenExit(h, why) ==
    /\ listeners' = [listeners EXCEPT ![h] = @ - 1]
    /\ open' = open \ {conn}
    /\ conn' = 0
    /\ reconnects' = IF shouldRetry(retryCount) THEN reconnects + 1 ELSE reconnects
    /\ clLast' = [op |-> why, ok |-> shouldRetry(retryCount)]
    /\ UNCHANGED <<config, beforeConnHandler, afterConnHandler, isRunning, retryCount, ctxDone, pingers, messageCount,
                   closing, closePC, dials, attempts, starts>>

\* listenLoop at the top of its loop: return if the context is cancelled or
\* m.conn is nil, else block in ReadMessage on m.conn.
listenTop ==
    /\ clFrame
    /\ listeners[0] > 0
    /\ IF ctxDone \/ conn = 0
       THEN listenExit(0, "listenStop")
       ELSE /\ listeners' = [listeners EXCEPT ![0] = @ - 1, ![conn] = @ + 1]
            /\ clLast' = [op |-> "listenTop", ok |-> TRUE]
            /\ UNCHANGED <<config, beforeConnHandler, afterConnHandler, conn, open, isRunning, retryCount, ctxDone, pingers,
                           reconnects, messageCount, closing, closePC, dials, attempts, starts>>

\* ReadMessage on transport h returns a frame: count it, hand it to the handler
\* on its own goroutine, loop.
listenMessage(h) ==
    /\ clFrame
    /\ listeners[h] > 0
    /\ h \in open
    /\ messageCount < MaxMessages
    /\ messageCount' = messageCount + 1
    /\ listeners' = [listeners EXCEPT ![h] = @ - 1, ![0] = @ + 1]
    /\ clLast' = [op |-> "listenMessage", ok |-> TRUE]
    /\ UNCHANGED <<config, beforeConnHandler, afterConnHandler, conn, open, isRunning, retryCount, ctxDone, pingers,
                   reconnects, closing, closePC, dials, attempts, starts>>

\* ReadMessage on transport h returns an error (the transport was closed, or the
\* peer or the network failed): the loop returns.
listenError(h) ==
    /\ clFrame
    /\ listeners[h] > 0
    /\ listenExit(h, "listenError")

\* The goroutine listenLoop's deferred function starts: after RetryDelay, connect;
\* on success start a listen and a ping goroutine, on failure only log.
reconnect ==
    /\ clFrame
    /\ reconnects > 0
    /\ attempts < MaxAttempts
    /\ \E err \in Handshakes :
        /\ connect(err)
        /\ listeners' = IF err = "" THEN [listeners EXCEPT ![0] = @ + 1] ELSE listeners
        /\ pingers' = IF err = "" THEN pingers + 1 ELSE pingers
        /\ clLast' = [op |-> "reconnect", ok |-> err = "", err |-> err]
    /\ reconnects' = reconnects - 1
    /\ UNCHANGED <<config, beforeConnHandler, afterConnHandler, isRunning, ctxDone, messageCount, closing, closePC, starts>>

\* pingLoop returns: the context is cancelled, m.conn is nil at a tick, or the
\* ping write fails (always on a closed transport, possibly on an open one).
pingExit ==
    /\ clFrame
    /\ pingers > 0
    /\ pingers' = pingers - 1
    /\ clLast' = [op |-> "pingExit", ok |-> TRUE]
    /\ UNCHANGED <<config, beforeConnHandler, afterConnHandler, conn, open, isRunning, retryCount, ctxDone, listeners,
                   reconnects, messageCount, closing, closePC, dials, attempts, starts>>

\* Close, under m.mux: return at once when the client is not running; otherwise
\* cancel the context and clear isRunning.
Close ==
    /\ clFrame
    /\ ~closing
    /\ clLast' = [op |-> "Close", ok |-> isRunning]
    /\ IF isRunning
       THEN /\ ctxDone' = TRUE
            /\ isRunning' = FALSE
            /\ closing' = TRUE
            /\ closePC' = "transport"
       ELSE UNCHANGED <<ctxDone, isRunning, closing, closePC>>
    /\ UNCHANGED <<config, beforeConnHandler, afterConnHandler, conn, open, retryCount, listeners, pingers, reconnects,
                   messageCount, dials, attempts, starts>>

\* Close, outside the lock: if m.conn is not nil, send the close frame and close
\* the transport m.conn holds.
closeTransport ==
    /\ clFrame
    /\ closePC = "transport"
    /\ open' = open \ {conn}
    /\ closePC' = IF conn # 0 THEN "forget" ELSE "wait"
    /\ clLast' = [op |-> "closeTransport", ok |-> conn # 0]
    /\ UNCHANGED <<config, beforeConnHandler, afterConnHandler, conn, isRunning, retryCount, ctxDone, listeners, pingers,
                   reconnects, messageCount, closing, dials, attempts, starts>>

\* Close, outside the lock: m.conn = nil, whatever m.conn holds by now; then
\* goroutines.Wait().
closeForget ==
    /\ clFrame
    /\ closePC = "forget"
    /\ conn' = 0
    /\ closePC' = "wait"
    /\ clLast' = [op |-> "closeForget", ok |-> TRUE]
    /\ UNCHANGED <<config, beforeConnHandler, afterConnHandler, open, isRunning, retryCount, ctxDone, listeners, pingers,
                   reconnects, messageCount, closing, dials, attempts, starts>>

\* No goroutine of the client is alive.
NoGoroutines ==
    /\ \A h \in DOMAIN listeners : listeners[h] = 0
    /\ pingers = 0
    /\ reconnects = 0

\* goroutines.Wait() returns and Close with it.
CloseReturn ==
    /\ clFrame
    /\ closing
    /\ closePC = "wait"
    /\ NoGoroutines
    /\ closing' = FALSE
    /\ closePC' = "idle"
    /\ clLast' = [op |-> "CloseReturn", ok |-> TRUE]
    /\ UNCHANGED <<config, beforeConnHandler, afterConnHandler, conn, open, isRunning, retryCount, ctxDone, listeners, pingers,
                   reconnects, messageCount, dials, attempts, starts>>

ClNext ==
    \/ Start
    \/ listenTop
    \/ \E h \in 1..MaxDials : listenMessage(h)
    \/ \E h \in 1..MaxDials : listenError(h)
    \/ reconnect
    \/ pingExit
    \/ Close
    \/ closeTransport
    \/ closeForget
    \/ CloseReturn

\* =================================================================== Hub state (types.go)
\* The MaxConnections values a hub is configured with (0 = unlimited).
ConnLimits == {0, 1, 2}

\* DefaultHubConfig(): MaxConnections 1000.
DefaultMaxConnections == 1000

NoBroadcast ==
    [phase |-> "idle", n |-> 0, filter |-> "nil", exclude |-> {}, snap |-> << >>,
     pending |-> {}, delivered |-> << >>, failed |-> {}]

\* No fan-out in progress.
NoPool == [phase |-> "idle", targets |-> 0, workers |-> 0, queued |-> 0,
           handed |-> 0, writing |-> 0, abandoned |-> 0, written |-> 0, exited |-> 0]

\* No frame read, no handler invoked, no size limit.
NoRx == [MaxMessageSize |-> 0, frames |-> << >>, handled |-> << >>, handling |-> {},
         dropped |-> 0, panics |-> 0, crashed |-> FALSE, heard |-> << >>]

\* The goroutines that call SendMessage concurrently, one call each.
Callers == 1..MaxCallers

\* A caller that has not called yet.
NoCall == [pc |-> "idle", id |-> "", k |-> 0, seen |-> 0, result |-> ""]

\* NewHub / NewOptimizedHub followed by SetConfig: an empty registry, zero counters.
NewHub(maxConnections) ==
    /\ rx = NoRx
    /\ probes = {}
    /\ cleanupBatch = << >>
    /\ dead = {}
    /\ calls = [c \in Callers |-> NoCall]
    /\ broadcastChan = << >>
    /\ offered = << >>
    /\ fanned = << >>
    /\ hubRun = [phase |-> "running", ctxDone |-> FALSE, background |-> {},
                 cancelled |-> {}, closed |-> {}]
    /\ sent = [MessagesSent |-> 0, writes |-> 0]
    /\ pool = NoPool
    /\ hubConfig = [MaxConnections |-> maxConnections]
    /\ connections = << >>
    /\ conns = << >>
    /\ adds = {}
    /\ loops = {}
    /\ stats = [TotalConnections |-> 0, ActiveConnections |-> 0, TotalMessages |-> 0,
                BroadcastMessages |-> 0, LastCleanup |-> 0]
    /\ events = << >>
    /\ now = 0
    /\ bc = NoBroadcast
    /\ hubLast = [op |-> "New", id |-> "", result |-> "ok", ids |-> {}]

HubInit == \E m \in ConnLimits : NewHub(m)

\* A transport the caller hands to the hub (open until somebody closes it), with
\* the fields of the Connection made for it.
Transport(connID, role) ==
    [ID |-> connID, role |-> role, LastSeen |-> now, open |-> TRUE]

Put(f, key, v) == [x \in DOMAIN f \cup {key} |-> IF x = key THEN v ELSE f[x]]
Delete(f, keys) == [x \in DOMAIN f \ keys |-> f[x]]

\* GetConnectionCount: len(h.connections).
GetConnectionCount == Cardinality(DOMAIN connections)

\* The connection limit is set and reached.
LimitReached ==
    hubConfig.MaxConnections > 0 /\ GetConnectionCount >= hubConfig.MaxConnections

\* What the last call of an exported method returned.
Called(op, connID, result) ==
    [op |-> op, id |-> connID, result |-> result, ids |-> {}]

\* =================================================================== OptimizedHub
\* OptimizedAddConnection, first critical section (RLock): the connection limit.
OptimizedAddCheck(connID, role) ==
    /\ hubFrame
    /\ Len(conns) < MaxOptConns
    /\ IF LimitReached
       THEN /\ hubLast' = Called("Add", "", "CapacityExceeded")
            /\ UNCHANGED <<conns, adds>>
       ELSE /\ conns' = Append(conns, Transport(connID, role))
            /\ adds' = adds \cup {Len(conns) + 1}
            /\ UNCHANGED hubLast
    /\ UNCHANGED <<hubConfig, connections, loops, stats, events, now, bc>>

\* OptimizedAddConnection, the rest: make the Connection, store it under its id
\* (second critical section, Lock), start its listen goroutine, count it, return it.
OptimizedAddInsert(k) ==
    /\ hubFrame
    /\ k \in adds
    /\ adds' = adds \ {k}
    /\ conns' = [conns EXCEPT ![k].LastSeen = now]
    /\ connections' = Put(connections, conns[k].ID, k)
    /\ loops' = loops \cup {k}
    /\ stats' = [stats EXCEPT !.TotalConnections = @ + 1, !.ActiveConnections = @ + 1]
    /\ hubLast' = Called("Add", "", "ok")
    /\ UNCHANGED <<hubConfig, events, now, bc>>

\* optimizedListenConnection: ReadMessage returns a text frame before the read
\* deadline: refresh LastSeen and the deadline, call the handler, count the message.
optimizedListenMessage(k) ==
    /\ hubFrame
    /\ k \in loops
    /\ conns[k].open
    /\ now - conns[k].LastSeen < ConnectionTimeout
    /\ stats.TotalMessages < MaxMessages
    /\ conns' = [conns EXCEPT ![k].LastSeen = now]
    /\ stats' = [stats EXCEPT !.TotalMessages = @ + 1]
    /\ UNCHANGED <<hubConfig, connections, adds, loops, events, now, bc, hubLast>>

\* optimizedListenConnection: ReadMessage returns an error (the transport is
\* closed, or the read deadline LastSeen + ConnectionTimeout has passed); the
\* deferred function deletes the entry of conn.ID and counts one connection less.
optimizedListenExit(k) ==
    /\ hubFrame
    /\ k \in loops
    /\ ~conns[k].open \/ now - conns[k].LastSeen >= ConnectionTimeout
    /\ loops' = loops \ {k}
    /\ connections' = Delete(connections, {conns[k].ID})
    /\ stats' = [stats EXCEPT !.ActiveConnections = @ - 1]
    /\ UNCHANGED <<hubConfig, conns, adds, events, now, bc, hubLast>>

\* The peer or the network closes a registered transport.
transportFails(k) ==
    /\ hubFrame
    /\ k \in loops
    /\ conns[k].open
    /\ conns' = [conns EXCEPT ![k].open = FALSE]
    /\ UNCHANGED <<hubConfig, connections, adds, loops, stats, events, now, bc, hubLast>>

\* The ids optimizedCleanup collects: LastSeen older than ConnectionTimeout.
timedOut ==
    {id \in DOMAIN connections : now - conns[connections[id]].LastSeen > ConnectionTimeout}

\* processCleanupBatch: close each transport, delete each entry, count each;
\* LastCleanup is written by the caller, optimizedCleanup, once the batch is done.
processCleanupBatch(toRemove) ==
    /\ conns' = [k \in DOMAIN conns |->
                    IF \E id \in toRemove : connections[id] = k
                    THEN [conns[k] EXCEPT !.open = FALSE] ELSE conns[k]]
    /\ connections' = Delete(connections, toRemove)
    /\ stats' = [stats EXCEPT !.ActiveConnections = @ - Cardinality(toRemove),
                              !.LastCleanup = now]

\* optimizedCleanup, under the write lock: remove the timed-out connections and
\* start a probe goroutine for every other one (the time.After case of the
\* select is not ready when the select is evaluated, so its default runs).
optimizedCleanup ==
    /\ monFrame
    /\ processCleanupBatch(timedOut)
    /\ probes' = probes \cup {connections[id] : id \in DOMAIN connections \ timedOut}
    /\ hubLast' = [op |-> "optimizedCleanup", id |-> "", result |-> "ok",
                   ids |-> timedOut]
    /\ UNCHANGED <<hubConfig, adds, loops, events, now, bc, cleanupBatch, dead>>

\* Time passes.
Tick ==
    /\ hubFrame
    /\ now < MaxNow
    /\ now' = now + 1
    /\ UNCHANGED <<hubConfig, connections, conns, adds, loops, stats, events, bc, hubLast>>

\* The snapshot ignores the exclude list.
broadcastTargetsAll(filter, exclude) ==
    {connections[id] : id \in {i \in DOMAIN connections :
        filter = "nil" \/ conns[connections[i]].role = filter}}

\* The snapshot of OptimizedBroadcastWithFilter, under RLock: every registered
\* Connection whose ID is not excluded and that the filter accepts.
broadcastTargets(filter, exclude) ==
    {connections[id] : id \in {i \in DOMAIN connections :
        /\ conns[connections[i]].ID \notin exclude
        /\ filter = "nil" \/ conns[connections[i]].role = filter}}

\* OptimizedBroadcastWithFilter up to the hand-out of the tasks; with no target
\* it returns at once.
OptimizedBroadcastWithFilter(filter, exclude) ==
    /\ hubFrame
    /\ bc.phase # "sending"
    /\ bc.n < MaxBroadcasts
    /\ LET targets == broadcastTargets(filter, exclude)
       IN  /\ bc' = [phase |-> IF targets = {} THEN "done" ELSE "sending",
                       n |-> bc.n + 1, filter |-> filter, exclude |-> exclude,
                       snap |-> connections, pending |-> targets,
                       delivered |-> [k \in DOMAIN conns |-> 0], failed |-> {}]
           /\ hubLast' = IF targets = {} THEN Called("Broadcast", "", "ok") ELSE hubLast
    /\ UNCHANGED <<hubConfig, connections, conns, adds, loops, stats, events, now>>

\* A worker takes a Connection from the task channel and writes the message to
\* its transport: an open transport receives it, a closed one returns an error.
broadcastSend(k) ==
    /\ hubFrame
    /\ bc.phase = "sending"
    /\ k \in bc.pending
    /\ bc' = IF conns[k].open
             THEN [bc EXCEPT !.pending = @ \ {k}, !.delivered[k] = @ + 1]
             ELSE [bc EXCEPT !.pending = @ \ {k}, !.failed = @ \cup {k}]
    /\ UNCHANGED <<hubConfig, connections, conns, adds, loops, stats, events, now, hubLast>>

\* Every worker is done: count the broadcast and return.
broadcastReturn ==
    /\ hubFrame
    /\ bc.phase = "sending"
    /\ bc.pending = {}
    /\ bc' = [bc EXCEPT !.phase = "done"]
    /\ stats' = [stats EXCEPT !.BroadcastMessages = @ + 1]
    /\ hubLast' = Called("Broadcast", "", "ok")
    /\ UNCHANGED <<hubConfig, connections, conns, adds, loops, events, now>>

OptNext ==
    \/ \E id \in ConnIDs, r \in Roles : OptimizedAddCheck(id, r)
    \/ \E k \in adds : OptimizedAddInsert(k)
    \/ \E k \in loops : optimizedListenMessage(k)
    \/ \E k \in loops : optimizedListenExit(k)
    \/ \E k \in loops : transportFails(k)
    \/ optimizedCleanup
    \/ Tick

\* The registry under a broadcast, at one instant.
OptBroadcastNext ==
    \/ \E id \in ConnIDs, r \in Roles :
          /\ id = "a" \/ r = "user"
          /\ Len(conns) < MaxBroadcastConns
          /\ OptimizedAddCheck(id, r)
    \/ \E k \in adds : OptimizedAddInsert(k)
    \/ \E k \in loops : optimizedListenExit(k)
    \/ \E k \in loops : transportFails(k)
    \/ \E f \in {"nil", "admin"}, x \in {{}, {"a"}} : OptimizedBroadcastWithFilter(f, x)
    \/ \E k \in bc.pending : broadcastSend(k)
    \/ broadcastReturn

\* =================================================================== Hub (spec.md 4.1)
\* AddConnection without the connection limit.
AddConnectionNoLimit(connID, role) ==
    /\ hubFrame
    /\ Len(conns) < MaxHubConns
    /\ IF connID \in DOMAIN connections
       THEN /\ hubLast' = Called("AddConnection", connID, "DuplicateID")
            /\ UNCHANGED <<connections, conns, loops, stats, events>>
       ELSE /\ conns' = Append(conns, Transport(connID, role))
            /\ connections' = Put(connections, connID, Len(conns) + 1)
            /\ loops' = loops \cup {Len(conns) + 1}
            /\ stats' = [stats EXCEPT !.TotalConnections = @ + 1, !.ActiveConnections = @ + 1]
            /\ events' = Append(events, <<"ConnectionAdded", connID>>)
            /\ hubLast' = Called("AddConnection", connID, "ok")
    /\ UNCHANGED <<hubConfig, adds, now, bc>>

\* RemoveConnection that emits ConnectionRemoved whether or not the id is registered.
RemoveConnectionLoud(connID) ==
    /\ hubFrame
    /\ events' = Append(events, <<"ConnectionRemoved", connID>>)
    /\ IF connID \notin DOMAIN connections
       THEN /\ hubLast' = Called("RemoveConnection", connID, "NotFound")
            /\ UNCHANGED <<connections, conns, loops, stats>>
       ELSE /\ connections' = Delete(connections, {connID})
            /\ loops' = loops \ {connections[connID]}
            /\ conns' = [conns EXCEPT ![connections[connID]].open = FALSE]
            /\ stats' = [stats EXCEPT !.ActiveConnections = @ - 1]
            /\ hubLast' = Called("RemoveConnection", connID, "ok")
    /\ UNCHANGED <<hubConfig, adds, now, bc>>

\* RemoveConnection that counts one connection less before it looks the id up.
RemoveConnectionCounting(connID) ==
    /\ hubFrame
    /\ stats' = [stats EXCEPT !.ActiveConnections = @ - 1]
    /\ IF connID \notin DOMAIN connections
       THEN /\ hubLast' = Called("RemoveConnection", connID, "NotFound")
            /\ UNCHANGED <<connections, conns, loops, events>>
       ELSE /\ connections' = Delete(connections, {connID})
            /\ loops' = loops \ {connections[connID]}
            /\ conns' = [conns EXCEPT ![connections[connID]].open = FALSE]
            /\ events' = Append(events, <<"ConnectionRemoved", connID>>)
            /\ hubLast' = Called("RemoveConnection", connID, "ok")
    /\ UNCHANGED <<hubConfig, adds, now, bc>>

\* AddConnection(id, transport, metadata), one critical section: CapacityExceeded
\* when the limit is set and reached, DuplicateID when the id is registered;
\* otherwise insert the Connection, count it, start its dispatch loop and emit
\* ConnectionAdded.
AddConnection(connID, role) ==
    /\ hubFrame
    /\ Len(conns) < MaxHubConns
    /\ IF LimitReached
       THEN /\ hubLast' = Called("AddConnection", connID, "CapacityExceeded")
            /\ UNCHANGED <<connections, conns, loops, stats, events>>
       ELSE IF connID \in DOMAIN connections
       THEN /\ hubLast' = Called("AddConnection", connID, "DuplicateID")
            /\ UNCHANGED <<connections, conns, loops, stats, events>>
       ELSE /\ conns' = Append(conns, Transport(connID, role))
            /\ connections' = Put(connections, connID, Len(conns) + 1)
            /\ loops' = loops \cup {Len(conns) + 1}
            /\ stats' = [stats EXCEPT !.TotalConnections = @ + 1, !.ActiveConnections = @ + 1]
            /\ events' = Append(events, <<"ConnectionAdded", connID>>)
            /\ hubLast' = Called("AddConnection", connID, "ok")
    /\ UNCHANGED <<hubConfig, adds, now, bc>>

\* RemoveConnection(id): NotFound when the id is absent; otherwise delete the
\* entry, cancel the connection's scope, close its transport, count one active
\* connection less and emit ConnectionRemoved.
RemoveConnection(connID) ==
    /\ hubFrame
    /\ IF connID \notin DOMAIN connections
       THEN /\ hubLast' = Called("RemoveConnection", connID, "NotFound")
            /\ UNCHANGED <<connections, conns, loops, stats, events>>
       ELSE /\ connections' = Delete(connections, {connID})
            /\ loops' = loops \ {connections[connID]}
            /\ conns' = [conns EXCEPT ![connections[connID]].open = FALSE]
            /\ stats' = [stats EXCEPT !.ActiveConnections = @ - 1]
            /\ events' = Append(events, <<"ConnectionRemoved", connID>>)
            /\ hubLast' = Called("RemoveConnection", connID, "ok")
    /\ UNCHANGED <<hubConfig, adds, now, bc>>

HubNext ==
    \/ \E id \in HubIDs, r \in Roles : AddConnection(id, r)
    \/ \E id \in HubIDs : RemoveConnection(id)

\* What a successful removal does (spec.md 4.1, RemoveConnection): delete the
\* entry, cancel the scope, close the transport, count, emit ConnectionRemoved.
Removal(connID) ==
    /\ connections' = Delete(connections, {connID})
    /\ loops' = loops \ {connections[connID]}
    /\ conns' = [conns EXCEPT ![connections[connID]].open = FALSE]
    /\ stats' = [stats EXCEPT !.ActiveConnections = @ - 1]
    /\ events' = Append(events, <<"ConnectionRemoved", connID>>)

\* SendMessage that keeps a connection whose write failed.
SendMessageKeeping(connID) ==
    /\ svcFrame
    /\ sent.writes < MaxSends
    /\ IF connID \notin DOMAIN connections
       THEN /\ hubLast' = Called("SendMessage", connID, "NotFound")
            /\ UNCHANGED sent
       ELSE IF conns[connections[connID]].open
       THEN /\ sent' = [MessagesSent |-> sent.MessagesSent + 1, writes |-> sent.writes + 1]
            /\ hubLast' = Called("SendMessage", connID, "ok")
       ELSE /\ sent' = [sent EXCEPT !.writes = @ + 1]
            /\ hubLast' = Called("SendMessage", connID, "SendFailed")
    /\ UNCHANGED <<connections, conns, loops, stats, events>>
    /\ UNCHANGED <<hubConfig, adds, now, bc, broadcastChan, offered, fanned, hubRun, pool>>

\* SendMessage that counts the message before it looks the id up.
SendMessageCounting(connID) ==
    /\ svcFrame
    /\ sent.writes < MaxSends
    /\ IF connID \notin DOMAIN connections
       THEN /\ hubLast' = Called("SendMessage", connID, "NotFound")
            /\ sent' = [sent EXCEPT !.MessagesSent = @ + 1]
            /\ UNCHANGED <<connections, conns, loops, stats, events>>
       ELSE IF conns[connections[connID]].open
       THEN /\ sent' = [MessagesSent |-> sent.MessagesSent + 1, writes |-> sent.writes + 1]
            /\ hubLast' = Called("SendMessage", connID, "ok")
            /\ UNCHANGED <<connections, conns, loops, stats, events>>
       ELSE /\ sent' = [sent EXCEPT !.writes = @ + 1]
            /\ Removal(connID)
            /\ hubLast' = Called("SendMessage", connID, "SendFailed")
    /\ UNCHANGED <<hubConfig, adds, now, bc, broadcastChan, offered, fanned, hubRun, pool>>

\* SendMessage(id, payload): NotFound when the id is absent; otherwise one write
\* under the write deadline; a write that fails removes the connection and
\* returns SendFailed, a write that succeeds counts one sent message.
SendMessage(connID) ==
    /\ svcFrame
    /\ sent.writes < MaxSends
    /\ IF connID \notin DOMAIN connections
       THEN /\ hubLast' = Called("SendMessage", connID, "NotFound")
            /\ UNCHANGED <<connections, conns, loops, stats, events, sent>>
       ELSE IF conns[connections[connID]].open
       THEN /\ sent' = [MessagesSent |-> sent.MessagesSent + 1, writes |-> sent.writes + 1]
            /\ hubLast' = Called("SendMessage", connID, "ok")
            /\ UNCHANGED <<connections, conns, loops, stats, events>>
       ELSE /\ sent' = [sent EXCEPT !.writes = @ + 1]
            /\ Removal(connID)
            /\ hubLast' = Called("SendMessage", connID, "SendFailed")
    /\ UNCHANGED <<hubConfig, adds, now, bc, broadcastChan, offered, fanned, hubRun, pool>>

\* A Hub whose callers add, remove and send while peers drop their transports.
HubSendNext ==
    \/ \E id \in ConnIDs : AddConnection(id, "user")
    \/ \E id \in ConnIDs : RemoveConnection(id)
    \/ \E k \in loops : transportFails(k)
    \/ \E id \in ConnIDs : SendMessage(id)

\* ------------------------------------------------------------------ Hub lifecycle (spec.md 3, 4.2, 5)
\* The loops Start launches next to the dispatch loops.
Background == {"dispatcher", "monitor"}

\* Start: launch the background loops and emit HubStarted.
HubStart ==
    /\ svcFrame
    /\ hubRun.phase = "running"
    /\ hubRun.background = {}
    /\ ~\E i \in DOMAIN events : events[i] = <<"HubStarted", "">>
    /\ hubRun' = [hubRun EXCEPT !.background = Background]
    /\ events' = Append(events, <<"HubStarted", "">>)
    /\ hubLast' = Called("Start", "", "ok")
    /\ UNCHANGED <<hubConfig, connections, conns, adds, loops, stats, now, bc>>
    /\ UNCHANGED <<broadcastChan, offered, fanned, sent, pool>>

\* Stop, step 1: cancel the hub's scope.
StopCancelHub ==
    /\ svcFrame
    /\ hubRun.phase = "running"
    /\ hubRun' = [hubRun EXCEPT !.phase = "cancelling", !.ctxDone = TRUE]
    /\ UNCHANGED <<hubVars, broadcastChan, offered, fanned, sent, pool>>

\* Stop, step 2: cancel the scope of every connection.
StopCancelConnections ==
    /\ svcFrame
    /\ hubRun.phase = "cancelling"
    /\ hubRun' = [hubRun EXCEPT !.phase = "waiting", !.cancelled = loops]
    /\ UNCHANGED <<hubVars, broadcastChan, offered, fanned, sent, pool>>

\* A background loop sees the hub's scope cancelled and exits.
backgroundExit(g) ==
    /\ svcFrame
    /\ g \in hubRun.background
    /\ hubRun.ctxDone
    /\ hubRun' = [hubRun EXCEPT !.background = @ \ {g}]
    /\ UNCHANGED <<hubVars, broadcastChan, offered, fanned, sent, pool>>

\* A dispatch loop that leaves only when its receive fails.
dispatchExitOnError(k) ==
    /\ svcFrame
    /\ k \in loops
    /\ ~conns[k].open
    /\ IF conns[k].ID \in DOMAIN connections /\ connections[conns[k].ID] = k
       THEN Removal(conns[k].ID)
       ELSE /\ loops' = loops \ {k}
            /\ UNCHANGED <<connections, conns, stats, events>>
    /\ UNCHANGED <<hubConfig, adds, now, bc, hubLast>>
    /\ UNCHANGED <<broadcastChan, offered, fanned, hubRun, sent, pool>>

\* The dispatch loop of a Connection ends: its scope is cancelled or its receive
\* fails; its cleanup removes its own Connection if it is still registered.
dispatchExit(k) ==
    /\ svcFrame
    /\ k \in loops
    /\ ~conns[k].open \/ k \in hubRun.cancelled
    /\ IF conns[k].ID \in DOMAIN connections /\ connections[conns[k].ID] = k
       THEN Removal(conns[k].ID)
       ELSE /\ loops' = loops \ {k}
            /\ UNCHANGED <<connections, conns, stats, events>>
    /\ UNCHANGED <<hubConfig, adds, now, bc, hubLast>>
    /\ UNCHANGED <<broadcastChan, offered, fanned, hubRun, sent, pool>>

\* Stop that does not wait for the loops.
StopWaitNot ==
    /\ svcFrame
    /\ hubRun.phase = "waiting"
    /\ hubRun' = [hubRun EXCEPT !.phase = "closing"]
    /\ UNCHANGED <<hubVars, broadcastChan, offered, fanned, sent, pool>>

\* Stop, step 3: every background and dispatch goroutine has exited.
StopWait ==
    /\ svcFrame
    /\ hubRun.phase = "waiting"
    /\ loops = {}
    /\ hubRun.background = {}
    /\ hubRun' = [hubRun EXCEPT !.phase = "closing"]
    /\ UNCHANGED <<hubVars, broadcastChan, offered, fanned, sent, pool>>

\* Stop, step 4: close the transports still registered and clear the map.
StopClose ==
    /\ svcFrame
    /\ hubRun.phase = "closing"
    /\ hubRun' = [hubRun EXCEPT !.phase = "closed",
                                !.closed = {connections[id] : id \in DOMAIN connections}]
    /\ conns' = [k \in DOMAIN conns |->
                    IF \E id \in DOMAIN connections : connections[id] = k
                    THEN [conns[k] EXCEPT !.open = FALSE] ELSE conns[k]]
    /\ connections' = << >>
    /\ UNCHANGED <<hubConfig, adds, loops, stats, events, now, bc, hubLast>>
    /\ UNCHANGED <<broadcastChan, offered, fanned, sent, pool>>

\* Stop, step 5: emit HubStopped and return.
StopReturn ==
    /\ svcFrame
    /\ hubRun.phase = "closed"
    /\ hubRun' = [hubRun EXCEPT !.phase = "stopped"]
    /\ events' = Append(events, <<"HubStopped", "">>)
    /\ hubLast' = Called("Stop", "", "ok")
    /\ UNCHANGED <<hubConfig, connections, conns, adds, loops, stats, now, bc>>
    /\ UNCHANGED <<broadcastChan, offered, fanned, sent, pool>>

\* A Hub that is started, used and stopped.
HubStopNext ==
    \/ HubStart
    \/ \E id \in ConnIDs :
          hubRun.phase = "running" /\ Len(conns) < MaxStopConns /\ AddConnection(id, "user")
    \/ \E id \in ConnIDs : hubRun.phase = "running" /\ RemoveConnection(id)
    \/ \E k \in loops : transportFails(k)
    \/ \E k \in loops : dispatchExit(k)
    \/ \E g \in Background : backgroundExit(g)
    \/ StopCancelHub
    \/ StopCancelConnections
    \/ StopWait
    \/ StopClose
    \/ StopReturn

\* The goroutines and the Stop call are scheduled again and again.
HubStopFairness ==
    /\ WF_vars(\E k \in loops : dispatchExit(k))
    /\ WF_vars(\E g \in Background : backgroundExit(g))
    /\ WF_vars(StopCancelConnections)
    /\ WF_vars(StopWait)
    /\ WF_vars(StopClose)
    /\ WF_vars(StopReturn)

\* ------------------------------------------------------------------ broadcast queue
\* The payloads Broadcast has put on the queue, in order.
Accepted ==
    LET queued == SelectSeq(offered, LAMBDA o : o.queued)
    IN  [i \in DOMAIN queued |-> queued[i].payload]

\* The payloads the dispatcher has fanned out, in order.
FannedOut == [i \in DOMAIN fanned |-> fanned[i].payload]

\* A broadcast that queues whatever the length of the queue.
OptimizedBroadcastUnbounded ==
    /\ svcFrame
    /\ Len(offered) < MaxOffers
    /\ broadcastChan' = Append(broadcastChan, Len(offered) + 1)
    /\ offered' = Append(offered, [payload |-> Len(offered) + 1, queued |-> TRUE])
    /\ UNCHANGED <<hubVars, fanned, hubRun, sent, pool>>

\* OptimizedBroadcast(message): a send on h.broadcastChan in a select with
\* default: queued when the channel has room, dropped (and logged) when it is
\* full. The n-th call carries payload n.
OptimizedBroadcast ==
    /\ svcFrame
    /\ Len(offered) < MaxOffers
    /\ IF Len(broadcastChan) < QueueCap
       THEN /\ broadcastChan' = Append(broadcastChan, Len(offered) + 1)
            /\ offered' = Append(offered, [payload |-> Len(offered) + 1, queued |-> TRUE])
       ELSE /\ broadcastChan' = broadcastChan
            /\ offered' = Append(offered, [payload |-> Len(offered) + 1, queued |-> FALSE])
    /\ UNCHANGED <<hubVars, fanned, hubRun, sent, pool>>

\* A dispatcher that takes the newest payload.
dispatchNewest ==
    /\ svcFrame
    /\ "dispatcher" \in hubRun.background
    /\ broadcastChan # << >>
    /\ broadcastChan' = SubSeq(broadcastChan, 1, Len(broadcastChan) - 1)
    /\ fanned' = Append(fanned, [payload |-> broadcastChan[Len(broadcastChan)],
                                 targets |-> DOMAIN connections])
    /\ stats' = [stats EXCEPT !.BroadcastMessages = @ + 1]
    /\ events' = Append(events, <<"BroadcastSent", ToString(GetConnectionCount)>>)
    /\ UNCHANGED <<hubConfig, connections, conns, adds, loops, now, bc, hubLast>>
    /\ UNCHANGED <<offered, hubRun, sent, pool>>

\* The dispatcher (spec.md 4.3): take the oldest payload off the queue and fan
\* it out to every registered connection, as BroadcastWithFilter(payload, nil,
\* nil) does: one broadcast counted, one BroadcastSent with the target count.
dispatch ==
    /\ svcFrame
    /\ "dispatcher" \in hubRun.background
    /\ broadcastChan # << >>
    /\ broadcastChan' = Tail(broadcastChan)
    /\ fanned' = Append(fanned, [payload |-> Head(broadcastChan),
                                 targets |-> DOMAIN connections])
    /\ stats' = [stats EXCEPT !.BroadcastMessages = @ + 1]
    /\ events' = Append(events, <<"BroadcastSent", ToString(GetConnectionCount)>>)
    /\ UNCHANGED <<hubConfig, connections, conns, adds, loops, now, bc, hubLast>>
    /\ UNCHANGED <<offered, hubRun, sent, pool>>

\* A started Hub whose callers add connections and broadcast.
HubQueueNext ==
    \/ HubStart
    \/ \E id \in ConnIDs : Len(conns) < MaxQueueConns /\ AddConnection(id, "user")
    \/ OptimizedBroadcast
    \/ dispatch

\* Start is called and the dispatcher is scheduled again and again.
HubQueueFairness == WF_vars(HubStart) /\ WF_vars(dispatch)

\* ------------------------------------------------------------------ worker pool
\* workerCount := 10 in OptimizedBroadcastWithFilter.
WorkerCount == 10

Min(a, b) == IF a < b THEN a ELSE b

\* Writes that have been started and have not returned.
InFlight == pool.writing + pool.abandoned

\* Workers that are between two tasks.
Waiting == pool.workers - pool.writing - pool.exited

\* OptimizedBroadcastWithFilter with n targets in its snapshot: size the pool,
\* return at once when it is empty, otherwise make taskChan (capacity n) and
\* start the workers.
fanOutStart(n) ==
    /\ svcFrame
    /\ pool.phase = "idle"
    /\ pool' = [NoPool EXCEPT !.phase = IF Min(WorkerCount, n) = 0 THEN "returned" ELSE "handing",
                              !.targets = n, !.workers = Min(WorkerCount, n)]
    /\ UNCHANGED <<hubVars, broadcastChan, offered, fanned, hubRun, sent>>

\* The caller puts the next Connection on taskChan (never full: capacity n).
fanOutHand ==
    /\ svcFrame
    /\ pool.phase = "handing"
    /\ pool.handed < pool.targets
    /\ pool' = [pool EXCEPT !.handed = @ + 1, !.queued = @ + 1]
    /\ UNCHANGED <<hubVars, broadcastChan, offered, fanned, hubRun, sent>>

\* The caller closes taskChan and waits for the workers.
fanOutClose ==
    /\ svcFrame
    /\ pool.phase = "handing"
    /\ pool.handed = pool.targets
    /\ pool' = [pool EXCEPT !.phase = "waiting"]
    /\ UNCHANGED <<hubVars, broadcastChan, offered, fanned, hubRun, sent>>

\* A worker receives a Connection from taskChan and starts a goroutine that
\* writes the message to its transport.
workerTake ==
    /\ svcFrame
    /\ Waiting > 0
    /\ pool.queued > 0
    /\ pool' = [pool EXCEPT !.queued = @ - 1, !.writing = @ + 1]
    /\ UNCHANGED <<hubVars, broadcastChan, offered, fanned, hubRun, sent>>

\* The write returns within the 5 seconds: the worker goes for the next task.
workerWriteDone ==
    /\ svcFrame
    /\ pool.writing > 0
    /\ pool' = [pool EXCEPT !.writing = @ - 1, !.written = @ + 1]
    /\ UNCHANGED <<hubVars, broadcastChan, offered, fanned, hubRun, sent>>

\* time.After(5 * time.Second) fires first: the worker logs and goes for the
\* next task, the writing goroutine stays blocked in WriteMessage.
workerWriteTimeout ==
    /\ svcFrame
    /\ pool.writing > 0
    /\ pool' = [pool EXCEPT !.writing = @ - 1, !.abandoned = @ + 1]
    /\ UNCHANGED <<hubVars, broadcastChan, offered, fanned, hubRun, sent>>

\* A write the worker has given up on returns at last.
abandonedWriteDone ==
    /\ svcFrame
    /\ pool.abandoned > 0
    /\ pool' = [pool EXCEPT !.abandoned = @ - 1, !.written = @ + 1]
    /\ UNCHANGED <<hubVars, broadcastChan, offered, fanned, hubRun, sent>>

\* A worker finds taskChan closed and empty: wg.Done().
workerExit ==
    /\ svcFrame
    /\ pool.phase = "waiting"
    /\ pool.queued = 0
    /\ Waiting > 0
    /\ pool' = [pool EXCEPT !.exited = @ + 1]
    /\ UNCHANGED <<hubVars, broadcastChan, offered, fanned, hubRun, sent>>

\* wg.Wait() returns: count the broadcast and return.
fanOutReturn ==
    /\ svcFrame
    /\ pool.phase = "waiting"
    /\ pool.exited = pool.workers
    /\ pool' = [pool EXCEPT !.phase = "returned"]
    /\ stats' = [stats EXCEPT !.BroadcastMessages = @ + 1]
    /\ UNCHANGED <<hubConfig, connections, conns, adds, loops, events, now, bc, hubLast>>
    /\ UNCHANGED <<broadcastChan, offered, fanned, hubRun, sent>>

\* One fan-out of OptimizedBroadcastWithFilter, its workers and their writes.
PoolNext ==
    \/ \E n \in 0..MaxTargets : fanOutStart(n)
    \/ fanOutHand
    \/ fanOutClose
    \/ workerTake
    \/ workerWriteDone
    \/ workerWriteTimeout
    \/ abandonedWriteDone
    \/ workerExit
    \/ fanOutReturn

\* =================================================================== specifications
InitLimiter == RLInit /\ NewWebsocket(DefaultMaxRetries) /\ NewHub(DefaultMaxConnections)
SpecLimiter == InitLimiter /\ [][RLNext]_vars

InitClient == ClInit /\ RLInit /\ NewHub(DefaultMaxConnections)
SpecClient == InitClient /\ [][ClNext]_vars

InitOpt == HubInit /\ RLInit /\ NewWebsocket(DefaultMaxRetries)
SpecOpt == InitOpt /\ [][OptNext]_vars

InitHub == HubInit /\ RLInit /\ NewWebsocket(DefaultMaxRetries)
SpecHub == InitHub /\ [][HubNext]_vars

SpecHubSend == InitHub /\ [][HubSendNext]_vars

SpecHubStop == InitHub /\ [][HubStopNext]_vars
SpecHubStopLive == InitHub /\ [][HubStopNext]_vars /\ HubStopFairness

SpecHubQueue == InitHub /\ [][HubQueueNext]_vars
SpecHubQueueLive == InitHub /\ [][HubQueueNext]_vars /\ HubQueueFairness

SpecPool == InitOpt /\ [][PoolNext]_vars

InitOptBroadcast == NewHub(DefaultMaxConnections) /\ RLInit /\ NewWebsocket(DefaultMaxRetries)
SpecOptBroadcast == InitOptBroadcast /\ [][OptBroadcastNext]_vars

\* ------------------------------------------------------------------ C8
\* A step that is a call Allow(id).
IsAllow(id) == rlLast'.op = "Allow" /\ rlLast'.id = id

\* C8: for an id with a gate installed, Allow(id) never blocks, and it returns
\* true exactly when a tick of that gate has fired since the gate's last true
\* result (or its installation): at most once per tick, and again after a tick.
C8_AllowOncePerTick ==
    /\ [](\A id \in ConnIDs : ENABLED Allow(id))
    /\ [][\A id \in DOMAIN limits :
            IsAllow(id) => (rlLast'.result <=> rlTicked[id])]_vars

\* A gate that admitted a call and refused the call repeated at the same instant.
C8_Witness ==
    /\ rlLast.op = "Allow"
    /\ rlLast.id \in DOMAIN limits
    /\ ~rlLast.result
    /\ rlLastTrue[rlLast.id] = rlNow

\* ------------------------------------------------------------------ C9
\* C9: two admissions by the same gate are at least one full interval apart.
C9_MinimumInterval ==
    [][\A id \in DOMAIN limits :
        (IsAllow(id) /\ rlLast'.result /\ rlLastTrue[id] # None)
            => rlNow - rlLastTrue[id] >= limits[id].interval]_vars

\* ------------------------------------------------------------------ C10
\* The target has been unreachable throughout: no handshake succeeded.
Unreachable == attempts > 0 /\ dials = 0

\* C10: a client with MaxRetries = 3 whose target is unreachable, once started and
\* come to rest, has made exactly 3 failed connect attempts and GetRetryCount() is 3.
C10_ThreeAttemptsThenClosed ==
    (config.MaxRetries = 3 /\ starts = 1 /\ Unreachable /\ NoGoroutines /\ ~closing)
        => (attempts = 3 /\ retryCount = 3)

\* ------------------------------------------------------------------ C1
\* C1: in every state a sequence of AddConnection and RemoveConnection calls on
\* a Hub reaches, every registered Connection carries the id it is stored under,
\* no two ids hold the same Connection, no two connections with a running
\* dispatch loop share an id, and with MaxConnections > 0 GetConnectionCount()
\* is at most MaxConnections.
C1_UniqueIdsWithinCapacity ==
    /\ \A id \in DOMAIN connections : conns[connections[id]].ID = id
    /\ \A i, j \in DOMAIN connections : connections[i] = connections[j] => i = j
    /\ \A k1, k2 \in loops : conns[k1].ID = conns[k2].ID => k1 = k2
    /\ hubConfig.MaxConnections > 0 => GetConnectionCount <= hubConfig.MaxConnections

\* A full hub has refused a call.
C1_Witness ==
    /\ hubConfig.MaxConnections > 0
    /\ GetConnectionCount = hubConfig.MaxConnections
    /\ hubLast.op = "AddConnection"
    /\ hubLast.result \in {"CapacityExceeded", "DuplicateID"}

\* ------------------------------------------------------------------ C2
\* C2: under every interleaving of concurrent OptimizedAddConnection calls the
\* admission check and the insertion act as one step: the map never holds more
\* than a positive MaxConnections connections, and no two calls with the same id
\* both succeed (two Connections with that id running side by side).
C2_AtomicAdmission ==
    /\ hubConfig.MaxConnections > 0 => GetConnectionCount <= hubConfig.MaxConnections
    /\ \A k1, k2 \in loops : conns[k1].ID = conns[k2].ID => k1 = k2

\* ------------------------------------------------------------------ C3
\* C3: a call of OptimizedAddConnection whose id is registered when it takes the
\* write lock returns DuplicateID and leaves the map, the registered Connection
\* and every counter as they were.
C3_DuplicateIdRejected ==
    [][\A k \in adds :
          (k \notin adds' /\ conns[k].ID \in DOMAIN connections) =>
              /\ hubLast'.result = "DuplicateID"
              /\ connections' = connections
              /\ conns'[connections[conns[k].ID]] = conns[connections[conns[k].ID]]
              /\ stats' = stats]_vars

\* ------------------------------------------------------------------ C4
\* C4: RemoveConnection of an id that is not registered returns NotFound and
\* changes nothing: the map, the counters, the transports, the dispatch loops
\* and the emitted events are as before.
C4_RemoveUnknownNoSideEffects ==
    [][(hubLast'.op = "RemoveConnection" /\ hubLast'.id \notin DOMAIN connections) =>
          /\ hubLast'.result = "NotFound"
          /\ UNCHANGED <<connections, conns, loops, stats, events>>]_vars

\* An unknown id has been refused by a hub that holds another connection.
C4_Witness ==
    /\ hubLast.op = "RemoveConnection"
    /\ hubLast.result = "NotFound"
    /\ connections # << >>
    /\ events # << >>

\* ------------------------------------------------------------------ C5
\* C5: with MaxConnections = 2, AddConnection on a hub that holds two
\* connections returns CapacityExceeded and leaves the count at 2;
\* RemoveConnection of one of the two leaves the count at 1; AddConnection of an
\* unregistered id on a hub that holds fewer than two succeeds.
C5_CapacityReleasedByRemoval ==
    [][hubConfig.MaxConnections = 2 =>
          /\ (hubLast'.op = "AddConnection" /\ GetConnectionCount = 2) =>
                /\ hubLast'.result = "CapacityExceeded"
                /\ Cardinality(DOMAIN connections') = 2
          /\ (hubLast'.op = "RemoveConnection" /\ hubLast'.id \in DOMAIN connections) =>
                /\ hubLast'.result = "ok"
                /\ Cardinality(DOMAIN connections') = GetConnectionCount - 1
          /\ (hubLast'.op = "AddConnection" /\ GetConnectionCount < 2
                /\ hubLast'.id \notin DOMAIN connections) =>
                /\ hubLast'.result = "ok"
                /\ hubLast'.id \in DOMAIN connections'
                /\ Cardinality(DOMAIN connections') = GetConnectionCount + 1]_vars

\* The scenario's last state: "a" and "b" added, "a" removed, "c" added.
C5_Witness ==
    /\ hubConfig.MaxConnections = 2
    /\ events = << <<"ConnectionAdded", "a">>, <<"ConnectionAdded", "b">>,
                   <<"ConnectionRemoved", "a">>, <<"ConnectionAdded", "c">> >>
    /\ DOMAIN connections = {"b", "c"}

\* ------------------------------------------------------------------ C6
\* The Connections of the snapshot a broadcast must reach: not excluded, and
\* accepted by the filter.
Expected ==
    {bc.snap[id] : id \in {i \in DOMAIN bc.snap :
        /\ i \notin bc.exclude
        /\ bc.filter = "nil" \/ conns[bc.snap[i]].role = bc.filter}}

\* The Connections the broadcast has written the payload to.
Received == {k \in DOMAIN bc.delivered : bc.delivered[k] > 0}

\* C6: for every call of OptimizedBroadcastWithFilter nobody receives more than
\* one copy, whoever receives a copy is a Connection of the snapshot that is not
\* excluded and passes the filter, and when the call has returned and no write
\* failed (the connections are healthy) the receivers are exactly those.
C6_BroadcastTargetsExact ==
    bc.phase # "idle" =>
        /\ \A k \in DOMAIN bc.delivered : bc.delivered[k] <= 1
        /\ Received \subseteq Expected
        /\ (bc.phase = "done" /\ bc.failed = {}) => Received = Expected

\* A finished broadcast that reached somebody and left out somebody registered.
C6_Witness ==
    /\ bc.phase = "done"
    /\ bc.failed = {}
    /\ Received # {}
    /\ \E id \in DOMAIN bc.snap : bc.snap[id] \notin Received

\* ------------------------------------------------------------------ C7
\* C7: for every connection optimizedCleanup has found timed out (LastSeen older
\* than ConnectionTimeout) and removed, a ConnectionRemoved event has been
\* emitted.
C7_StaleRemovedWithEvent ==
    hubLast.op = "optimizedCleanup" =>
        \A id \in hubLast.ids :
            \E i \in DOMAIN events : events[i] = <<"ConnectionRemoved", id>>

\* ------------------------------------------------------------------ C11
\* A step that is a call SendMessage(id).
IsSend(id) ==
    /\ hubLast'.op = "SendMessage"
    /\ hubLast'.id = id
    /\ hubLast' # hubLast \/ sent' # sent

\* C11: SendMessage to a registered connection whose transport is closed makes
\* one write, returns SendFailed, and when it returns the id is no longer
\* registered; no message is counted as sent.
C11_SendFailureRemoves ==
    [][\A id \in DOMAIN connections :
          (IsSend(id) /\ ~conns[connections[id]].open) =>
              /\ hubLast'.result = "SendFailed"
              /\ id \notin DOMAIN connections'
              /\ sent'.writes = sent.writes + 1
              /\ sent'.MessagesSent = sent.MessagesSent]_vars

\* A send has failed and its connection is gone.
C11_Witness ==
    /\ hubLast.op = "SendMessage"
    /\ hubLast.result = "SendFailed"
    /\ hubLast.id \notin DOMAIN connections
    /\ sent.writes > 0

\* ------------------------------------------------------------------ C12
\* C12: SendMessage for an id that is not registered returns NotFound, writes to
\* no transport and leaves the sent-message counter, the registry and the
\* counters as they were.
C12_SendUnknownNotFound ==
    [][\A id \in ConnIDs :
          (IsSend(id) /\ id \notin DOMAIN connections) =>
              /\ hubLast'.result = "NotFound"
              /\ UNCHANGED <<sent, connections, conns, stats, events>>]_vars

\* A send to an id that had been registered, served and removed is refused.
C12_Witness ==
    /\ hubLast.op = "SendMessage"
    /\ hubLast.result = "NotFound"
    /\ sent.MessagesSent > 0
    /\ \E i \in DOMAIN events : events[i] = <<"ConnectionRemoved", hubLast.id>>

\* ------------------------------------------------------------------ C13
\* The Connections the hub has accepted and no longer holds.
Gone ==
    {k \in DOMAIN conns \ adds : \A id \in DOMAIN connections : connections[id] # k}

\* C13: whichever paths race for a connection (cleanup monitor, listen-loop
\* cleanup), the active count is decremented at most once for each connection
\* that has left the registry.
C13_RemovedExactlyOnce ==
    stats.TotalConnections - stats.ActiveConnections <= Cardinality(Gone)

\* ------------------------------------------------------------------ C14
\* C14: Stop keeps its order: once the wait is over the hub's scope is
\* cancelled and no dispatch or background goroutine is left; transports are
\* closed by Stop and the map is cleared only after that; no goroutine runs on a
\* transport Stop has closed; HubStopped is emitted last, by a Stop that has
\* done every step.
C14_StopOrder ==
    /\ hubRun.phase # "running" => hubRun.ctxDone
    /\ hubRun.phase \in {"closing", "closed", "stopped"} =>
          loops = {} /\ hubRun.background = {}
    /\ hubRun.closed # {} => hubRun.phase \in {"closed", "stopped"}
    /\ hubRun.closed \cap loops = {}
    /\ hubRun.phase \in {"closed", "stopped"} => connections = << >>
    /\ \A i \in DOMAIN events :
          events[i] = <<"HubStopped", "">> => i = Len(events) /\ hubRun.phase = "stopped"

\* Stop has returned on a hub that was started and had dispatch loops to cancel.
C14_Witness ==
    /\ hubRun.phase = "stopped"
    /\ hubRun.cancelled # {}
    /\ events[1] = <<"HubStarted", "">>
    /\ events[Len(events)] = <<"HubStopped", "">>

C16_BroadcastNeverBlocks ==
    /\ [](Len(broadcastChan) <= QueueCap)
    /\ [](Len(offered) < MaxOffers => ENABLED OptimizedBroadcast)
    /\ [][offered' # offered =>
            /\ Len(broadcastChan) < QueueCap =>
                  broadcastChan' = Append(broadcastChan, offered'[Len(offered')].payload)
            /\ Len(broadcastChan) >= QueueCap => broadcastChan' = broadcastChan]_vars

\* A payload has been dropped by a full queue, and later calls found room again.
C16_Witness ==
    /\ \E i \in DOMAIN offered : ~offered[i].queued
    /\ offered # << >>
    /\ offered[Len(offered)].queued
    /\ Len(broadcastChan) = QueueCap

C18_BoundedInFlight == InFlight <= WorkerCount

\* ------------------------------------------------------------------ C19
\* C19: when OptimizedBroadcastWithFilter has returned, no Connection whose
\* write failed during the fan-out is still registered.
C19_FailedTargetsRemoved ==
    bc.phase = "done" =>
        \A k \in bc.failed : \A id \in DOMAIN connections : connections[id] # k

\* ------------------------------------------------------------------ C20
\* C20: every call of OptimizedBroadcastWithFilter that has returned has raised
\* BroadcastMessages by exactly 1 and emitted exactly one BroadcastSent event.
C20_OneBroadcastPerCall ==
    bc.phase = "done" =>
        /\ stats.BroadcastMessages = bc.n
        /\ Cardinality({i \in DOMAIN events : events[i][1] = "BroadcastSent"}) = bc.n

\* ------------------------------------------------------------------ C21
\* Start has been called.
Started == \E i \in DOMAIN events : events[i] = <<"HubStarted", "">>

\* A Hub with an event sink, started before it is used (as TestEventHandler
\* does): callers add and remove, peers drop their transports, dispatch loops
\* end and clean up.
HubEventNext ==
    \/ HubStart
    \/ \E id \in ConnIDs : Started /\ Len(conns) < MaxEventConns /\ AddConnection(id, "user")
    \/ \E id \in ConnIDs : Started /\ RemoveConnection(id)
    \/ \E k \in loops : transportFails(k)
    \/ \E k \in loops : dispatchExit(k)

SpecHubEvents == InitHub /\ [][HubEventNext]_vars

\* The events about one id, in the order of their emission.
EventsOf(id) ==
    SelectSeq(events, LAMBDA e : e[2] = id /\ e[1] \in {"ConnectionAdded", "ConnectionRemoved"})

\* C21: on a Hub with an event sink that is started before it is used,
\* HubStarted is the first event and is emitted once; a step emits at most one
\* event; ConnectionAdded(id) is emitted exactly by the steps that register id
\* (the successful AddConnection calls, and the event names the Connection that
\* was stored and returned), ConnectionRemoved(id) exactly by the steps that
\* take id out of the registry; calls that fail emit nothing; for each id the
\* two events alternate, ConnectionAdded first.
C21_EventsWellFormed ==
    /\ [](\A i \in DOMAIN events : events[i][1] = "HubStarted" <=> i = 1)
    /\ [](\A id \in ConnIDs : \A i \in DOMAIN EventsOf(id) :
            EventsOf(id)[i][1] = (IF i % 2 = 1 THEN "ConnectionAdded" ELSE "ConnectionRemoved"))
    /\ [][/\ events' # events => Len(events') = Len(events) + 1 /\ SubSeq(events', 1, Len(events)) = events
          /\ \A id \in ConnIDs :
                /\ (id \notin DOMAIN connections /\ id \in DOMAIN connections')
                      <=> events' = Append(events, <<"ConnectionAdded", id>>)
                /\ (id \in DOMAIN connections /\ id \notin DOMAIN connections')
                      <=> events' = Append(events, <<"ConnectionRemoved", id>>)
                /\ events' = Append(events, <<"ConnectionAdded", id>>) =>
                      /\ hubLast' = Called("AddConnection", id, "ok")
                      /\ conns'[connections'[id]].ID = id
                      /\ connections'[id] = Len(conns')
          /\ (hubLast' # hubLast /\ hubLast'.result \in {"CapacityExceeded", "DuplicateID", "NotFound"})
                => events' = events]_vars

\* An id has been added, removed and added again, and a further add of it failed.
C21_Witness ==
    /\ events = << <<"HubStarted", "">>, <<"ConnectionAdded", "a">>,
                   <<"ConnectionRemoved", "a">>, <<"ConnectionAdded", "a">> >>
    /\ hubLast = Called("AddConnection", "a", "DuplicateID")

\* ------------------------------------------------------------------ dispatch loop (spec.md 4.2)
\* The size limit a hub is configured with, and the frame sizes a peer sends:
\* as long as the limit, and one byte longer.
SizeLimits == {MaxFrameSize - 1}
FrameSizes == {MaxFrameSize - 1, MaxFrameSize}

\* SetConfig before the hub is used: MaxMessageSize (0, the constructed value, is unlimited).
SetConfig(maxMessageSize) ==
    /\ rxFrame
    /\ conns = << >>
    /\ rx.MaxMessageSize = 0
    /\ rx' = [rx EXCEPT !.MaxMessageSize = maxMessageSize]
    /\ UNCHANGED hubVars

\* The n-th frame read by any loop: the loop of Connection k reads `size` bytes.
Frame(k, size, kind) == [k |-> k, n |-> Len(rx.frames) + 1, size |-> size, kind |-> kind]

\* The handler is invoked with (id, payload) by the loop of Connection k.
Invocation(k) == [id |-> conns[k].ID, k |-> k, n |-> Len(rx.frames) + 1]

\* A dispatch loop that takes no notice of MaxMessageSize.
dispatchFrameUnlimited(k, size) ==
    /\ rxFrame
    /\ k \in loops
    /\ conns[k].open
    /\ Len(rx.frames) < MaxFrames
    /\ rx' = [rx EXCEPT !.frames = Append(@, Frame(k, size, "text")),
                        !.handled = Append(@, Invocation(k))]
    /\ conns' = [conns EXCEPT ![k].LastSeen = now]
    /\ stats' = [stats EXCEPT !.TotalMessages = @ + 1]
    /\ events' = Append(events, <<"MessageReceived", conns[k].ID>>)
    /\ UNCHANGED <<hubConfig, connections, adds, loops, now, bc, hubLast>>

\* The dispatch loop of Connection k receives a data frame: one that is longer
\* than a positive MaxMessageSize is dropped and counted as dropped; any other
\* updates lastSeen, is handed to the handler with the connection's id, emits
\* MessageReceived and counts one received message.
dispatchFrame(k, size) ==
    /\ rxFrame
    /\ k \in loops
    /\ conns[k].open
    /\ Len(rx.frames) < MaxFrames
    /\ IF rx.MaxMessageSize > 0 /\ size > rx.MaxMessageSize
       THEN /\ rx' = [rx EXCEPT !.frames = Append(@, Frame(k, size, "text")),
                                !.dropped = @ + 1]
            /\ UNCHANGED <<conns, stats, events>>
       ELSE /\ rx' = [rx EXCEPT !.frames = Append(@, Frame(k, size, "text")),
                                !.handled = Append(@, Invocation(k))]
            /\ conns' = [conns EXCEPT ![k].LastSeen = now]
            /\ stats' = [stats EXCEPT !.TotalMessages = @ + 1]
            /\ events' = Append(events, <<"MessageReceived", conns[k].ID>>)
    /\ UNCHANGED <<hubConfig, connections, adds, loops, now, bc, hubLast>>

\* A Hub whose peers send frames of several sizes while time passes.
HubDispatchNext ==
    \/ \E m \in SizeLimits : SetConfig(m)
    \/ \E id \in ConnIDs : Len(conns) < MaxDispatchConns /\ AddConnection(id, "user")
    \/ \E k \in loops, size \in FrameSizes : dispatchFrame(k, size)
    \/ Tick
    \/ \E k \in loops : transportFails(k)
    \/ \E k \in loops : dispatchExit(k)

InitHubDispatch == NewHub(DefaultMaxConnections) /\ RLInit /\ NewWebsocket(DefaultMaxRetries)
SpecHubDispatch == InitHubDispatch /\ [][HubDispatchNext]_vars

\* ------------------------------------------------------------------ C22
\* The frame a step has read.
LastFrame == rx'.frames[Len(rx'.frames)]

\* C22: with MaxMessageSize > 0, a frame longer than MaxMessageSize is dropped
\* and is not fatal: the handler is not invoked, the received-message counter
\* and lastSeen stay as they were, the connection stays registered with its
\* loop running, and the loop goes on reading; a frame within the limit (any
\* frame when MaxMessageSize is 0) is handed to the handler once, under the
\* connection's id, and counted once.
C22_OversizeDropped ==
    /\ [](\A k \in loops : (conns[k].open /\ Len(rx.frames) < MaxFrames) =>
            ENABLED dispatchFrame(k, 1))
    /\ [][Len(rx'.frames) > Len(rx.frames) =>
            IF rx.MaxMessageSize > 0 /\ LastFrame.size > rx.MaxMessageSize
            THEN /\ rx'.handled = rx.handled
                 /\ stats'.TotalMessages = stats.TotalMessages
                 /\ conns' = conns
                 /\ connections' = connections
                 /\ loops' = loops
            ELSE /\ rx'.handled = Append(rx.handled,
                        [id |-> conns[LastFrame.k].ID, k |-> LastFrame.k, n |-> LastFrame.n])
                 /\ stats'.TotalMessages = stats.TotalMessages + 1
                 /\ conns'[LastFrame.k].LastSeen = now
                 /\ connections' = connections]_vars

\* A connection of a hub with a size limit has received a frame as long as the
\* limit, then a longer one at a later instant, then one within it again: two
\* are delivered and counted, lastSeen is that of the last delivery.
C22_Witness ==
    /\ rx.MaxMessageSize > 0
    /\ Len(rx.frames) = 3
    /\ \A i \in 1..3 : rx.frames[i].k = 1
    /\ rx.frames[1].size = rx.MaxMessageSize
    /\ rx.frames[2].size > rx.MaxMessageSize
    /\ rx.frames[3].size = rx.MaxMessageSize
    /\ Len(rx.handled) = 2
    /\ rx.handled[2].n = 3
    /\ stats.TotalMessages = 2
    /\ rx.dropped = 1
    /\ conns[1].LastSeen = now
    /\ now > 0
    /\ 1 \in loops
    /\ connections[conns[1].ID] = 1

\* ------------------------------------------------------------------ OptimizedHub: frames and the handler
\* The data frames a peer sends.
FrameKinds == {"text", "binary"}

\* The loop of Connection k has read a text frame and is inside the handler.
Handling(k) == \E h \in rx.handling : h.k = k

\* A listen loop that starts the handler on a goroutine of its own and reads on.
optimizedListenReadAsync(k, kind) ==
    /\ rxFrame
    /\ ~rx.crashed
    /\ k \in loops
    /\ conns[k].open
    /\ Len(rx.frames) < MaxFrames
    /\ rx' = [rx EXCEPT !.frames = Append(@, Frame(k, 1, kind)),
                        !.handling = IF kind = "text" THEN @ \cup {Invocation(k)} ELSE @,
                        !.heard = Put(@, k, now)]
    /\ conns' = IF kind = "text" THEN [conns EXCEPT ![k].LastSeen = now] ELSE conns
    /\ UNCHANGED <<hubConfig, connections, adds, loops, stats, events, now, bc, hubLast>>

\* optimizedListenConnection: ReadMessage returns a data frame. A text frame
\* refreshes LastSeen and the read deadline and the loop calls the handler with
\* (conn.ID, message) on its own goroutine: it reads no further frame until the
\* handler is back. Any other frame is read and ignored.
optimizedListenRead(k, kind) ==
    /\ rxFrame
    /\ ~rx.crashed
    /\ k \in loops
    /\ conns[k].open
    /\ ~Handling(k)
    /\ Len(rx.frames) < MaxFrames
    /\ rx' = [rx EXCEPT !.frames = Append(@, Frame(k, 1, kind)),
                        !.handling = IF kind = "text" THEN @ \cup {Invocation(k)} ELSE @,
                        !.heard = Put(@, k, now)]
    /\ conns' = IF kind = "text" THEN [conns EXCEPT ![k].LastSeen = now] ELSE conns
    /\ UNCHANGED <<hubConfig, connections, adds, loops, stats, events, now, bc, hubLast>>

\* The handler runs on invocation h and returns: the loop counts the message.
handlerReturn(h) ==
    /\ rxFrame
    /\ ~rx.crashed
    /\ h \in rx.handling
    /\ rx' = [rx EXCEPT !.handling = @ \ {h}, !.handled = Append(@, h)]
    /\ stats' = [stats EXCEPT !.TotalMessages = @ + 1]
    /\ UNCHANGED <<hubConfig, connections, conns, adds, loops, events, now, bc, hubLast>>

\* The handler runs on invocation h and panics. Nothing between the handler and
\* the top of the goroutine recovers: the panic unwinds optimizedListenConnection,
\* whose deferred function deletes the entry of conn.ID and counts one
\* connection less, and then ends the process.
handlerPanic(h) ==
    /\ rxFrame
    /\ ~rx.crashed
    /\ h \in rx.handling
    /\ rx' = [rx EXCEPT !.handling = @ \ {h}, !.handled = Append(@, h),
                        !.panics = @ + 1, !.crashed = TRUE]
    /\ loops' = loops \ {h.k}
    /\ connections' = Delete(connections, {conns[h.k].ID})
    /\ stats' = [stats EXCEPT !.ActiveConnections = @ - 1]
    /\ UNCHANGED <<hubConfig, conns, adds, events, now, bc, hubLast>>

\* An OptimizedHub whose peers send frames to a handler that may panic. The
\* first transport comes under id "a" (the ids are interchangeable).
OptListenNext ==
    \/ \E id \in ConnIDs :
          /\ ~rx.crashed
          /\ id = "a" \/ conns # << >>
          /\ OptimizedAddCheck(id, "user")
    \/ \E k \in adds : ~rx.crashed /\ OptimizedAddInsert(k)
    \/ \E k \in loops, kind \in FrameKinds : optimizedListenRead(k, kind)
    \/ \E h \in rx.handling : handlerReturn(h)
    \/ \E h \in rx.handling : handlerPanic(h)
    \/ \E k \in loops : ~rx.crashed /\ transportFails(k)
    \/ \E k \in loops : ~rx.crashed /\ ~Handling(k) /\ optimizedListenExit(k)

SpecOptListen == InitOptBroadcast /\ [][OptListenNext]_vars

\* ------------------------------------------------------------------ C23
\* C23: a panic of the message handler does not end the loop that called it:
\* the process lives on, the loop is still running, the connection is still
\* registered and counted, and the loop reads and dispatches the next frame.
C23_HandlerPanicContained ==
    /\ [][rx'.panics > rx.panics =>
            /\ ~rx'.crashed
            /\ loops' = loops
            /\ connections' = connections
            /\ stats'.ActiveConnections = stats.ActiveConnections]_vars
    /\ [](\A k \in loops : (conns[k].open /\ ~Handling(k) /\ Len(rx.frames) < MaxFrames) =>
            ENABLED optimizedListenRead(k, "text"))

\* ------------------------------------------------------------------ C24
\* The handler's invocations by the loop of Connection k, in order.
HandledBy(k) == SelectSeq(rx.handled, LAMBDA h : h.k = k)

\* The frames the loop of Connection k has read and delivers (text frames), in order.
DeliveredOn(k) == SelectSeq(rx.frames, LAMBDA f : f.k = k /\ f.kind = "text")

Registered == {connections[id] : id \in DOMAIN connections}

\* C25: a Connection is in the map of the OptimizedHub if and only if its listen
\* loop has been started and has not yet ended on a transport error or on
\* cancellation.
C25_RegisteredIffLoopRunning == Registered = loops

\* ------------------------------------------------------------------ C27
\* The number of listenLoop goroutines of the client.
ListenerCount == Cardinality({p \in (DOMAIN listeners) \X (1..(MaxAttempts + 1)) : p[2] <= listeners[p[1]]})

\* C27: once Close has been called on a running client (the context is
\* cancelled) the client is closed for good: unless the caller calls Start
\* again, no connect attempt is made, no listen or ping loop is started, and no
\* transport is installed.
C27_ClosedForGood ==
    [][(ctxDone /\ clLast'.op # "Start") =>
          /\ attempts' = attempts
          /\ ListenerCount' <= ListenerCount
          /\ pingers' <= pingers
          /\ conn' \in {0, conn}]_vars

\* ------------------------------------------------------------------ C28
\* C28: when a listen loop ends on a read error the transport the client holds
\* is closed and a reconnect is scheduled exactly if shouldRetry(); a reconnect
\* that succeeds starts one listen loop and one ping loop; and a running client
\* that has lost its transport and may still retry has a reconnect on its way.
C28_ReconnectWhileRetriesRemain ==
    /\ [][clLast'.op = "listenError" /\ clLast' # clLast =>
            /\ conn' = 0
            /\ conn \notin open'
            /\ reconnects' = reconnects + (IF shouldRetry(retryCount) THEN 1 ELSE 0)]_vars
    /\ [][dials' > dials /\ clLast'.op = "reconnect" =>
            /\ ListenerCount' = ListenerCount + 1
            /\ pingers' = pingers + 1]_vars
    /\ []((isRunning /\ ~ctxDone /\ conn = 0 /\ shouldRetry(retryCount)) =>
            (reconnects > 0 \/ ListenerCount > 0))

\* ------------------------------------------------------------------ C29
\* C29: one call of connect makes one handshake: a failed one raises retryCount
\* by 1, a successful one sets it to 0; with MaxRetries > 0 retryCount never
\* exceeds MaxRetries.
C29_RetryCountBounded ==
    /\ [][attempts' # attempts =>
            /\ attempts' = attempts + 1
            /\ retryCount' = (IF dials' > dials THEN 0 ELSE retryCount + 1)]_vars
    /\ [](config.MaxRetries > 0 => retryCount <= config.MaxRetries)

\* ------------------------------------------------------------------ C30
\* C30: the client has at most one open transport, the one m.conn holds; when
\* Close has returned, and when the last goroutine of a client nobody is
\* closing has gone, every transport the client dialed is closed.
C30_OneTransportNoLeak ==
    /\ Cardinality(open) <= 1
    /\ open \subseteq {conn}
    /\ (NoGoroutines /\ ~closing) => open = {}


\* ------------------------------------------------------------------ Close terminates
\* Transport identities (dials) and the count of handshakes (attempts) only
\* record history. When the client holds no transport, none is open, no listen
\* loop is blocked on one and no ping loop is alive, nothing refers to an old
\* identity any more and the numbering restarts: a client that reconnects for
\* ever is then a cycle of finitely many states.
Renumber ==
    /\ clFrame
    /\ conn = 0
    /\ open = {}
    /\ pingers = 0
    /\ \A h \in 1..(MaxDials + 1) : listeners[h] = 0
    /\ attempts > 0
    /\ dials' = 0
    /\ attempts' = 0
    /\ UNCHANGED <<config, beforeConnHandler, afterConnHandler, conn, open, isRunning, retryCount, ctxDone, listeners, pingers,
                   reconnects, messageCount, closing, closePC, starts, clLast>>

\* The first Start of a client.
StartOnce == starts = 0 /\ Start

\* ReadMessage on a transport that has been closed returns an error.
listenClosed == \E h \in 1..MaxDials : h \notin open /\ listenError(h)

\* One client, started once, against a server that can stay reachable for ever.
ClCloseNext ==
    \/ StartOnce
    \/ listenTop
    \/ \E h \in 1..MaxDials : listenMessage(h)
    \/ \E h \in 1..MaxDials : listenError(h)
    \/ reconnect
    \/ pingExit
    \/ Close
    \/ closeTransport
    \/ closeForget
    \/ CloseReturn
    \/ Renumber

\* Every goroutine that can take a step takes it in the end: the loops reach
\* their context check, a read on a closed transport fails, the reconnect's
\* RetryDelay elapses, Close goes on after releasing the lock.
ClCloseFairness ==
    /\ WF_vars(listenTop)
    /\ WF_vars(listenClosed)
    /\ WF_vars(reconnect)
    /\ WF_vars(pingExit)
    /\ WF_vars(closeTransport)
    /\ WF_vars(closeForget)
    /\ WF_vars(CloseReturn)
    /\ WF_vars(Renumber)

SpecClientClose == InitClient /\ [][ClCloseNext]_vars /\ ClCloseFairness

\* C26: Close is idempotent and terminates. A Close on a client that is not
\* running changes nothing; Close returns only when no goroutine of the client
\* is alive, with the context cancelled; and every Close that waits for the
\* goroutines returns in the end.
C26_CloseIdempotentTerminates ==
    /\ [][(clLast'.op = "Close" /\ ~clLast'.ok) =>
            UNCHANGED <<config, beforeConnHandler, afterConnHandler, conn, open, isRunning, retryCount, ctxDone, listeners,
                        pingers, reconnects, closing, closePC>>]_vars
    /\ [][(closing /\ ~closing') => (NoGoroutines /\ ctxDone /\ ~isRunning)]_vars
    /\ (closing ~> ~closing)


\* ------------------------------------------------------------------ loops per client
\* C31: across reconnect cycles of a client started once, at most one listen
\* loop and at most one ping loop are alive at a time.
C31_OneListenOnePing ==
    starts <= 1 => (ListenerCount <= 1 /\ pingers <= 1)


\* ------------------------------------------------------------------ connect hooks
\* SetBeforeConnectionHandler / SetAfterConnectionHandler: builder calls, made
\* before the first Start.
SetBeforeConnectionHandler ==
    /\ clFrame
    /\ starts = 0
    /\ ~beforeConnHandler
    /\ beforeConnHandler' = TRUE
    /\ clLast' = [op |-> "SetBeforeConnectionHandler", ok |-> TRUE]
    /\ UNCHANGED <<config, afterConnHandler, conn, open, isRunning, retryCount, ctxDone,
                   listeners, pingers, reconnects, messageCount, closing, closePC,
                   dials, attempts, starts>>

SetAfterConnectionHandler ==
    /\ clFrame
    /\ starts = 0
    /\ ~afterConnHandler
    /\ afterConnHandler' = TRUE
    /\ clLast' = [op |-> "SetAfterConnectionHandler", ok |-> TRUE]
    /\ UNCHANGED <<config, beforeConnHandler, conn, open, isRunning, retryCount, ctxDone,
                   listeners, pingers, reconnects, messageCount, closing, closePC,
                   dials, attempts, starts>>

\* A client whose hooks can be set.
ClHooksNext ==
    \/ SetBeforeConnectionHandler
    \/ SetAfterConnectionHandler
    \/ Start
    \/ listenTop
    \/ \E h \in 1..MaxDials : listenMessage(h)
    \/ \E h \in 1..MaxDials : listenError(h)
    \/ reconnect
    \/ pingExit
    \/ Close
    \/ closeTransport
    \/ closeForget
    \/ CloseReturn

\* NewWebsocket with DefaultConfig(); the hooks are set afterwards.
InitClientHooks == NewWebsocket(DefaultMaxRetries) /\ RLInit /\ NewHub(DefaultMaxConnections)
SpecClientHooks == InitClientHooks /\ [][ClHooksNext]_vars

\* This step is a call of connect, by Start or by the reconnect goroutine.
ConnectStep == starts' # starts \/ reconnects' < reconnects

\* C32: when the after-connect hook fails, connect has closed the transport it
\* opened and returns an error, and no listen or ping loop is started; when the
\* before-connect hook fails, no handshake is made and retryCount and the
\* current transport stay as they were.
C32_HookFailures ==
    /\ [][(ConnectStep /\ clLast'.err = "after") =>
            /\ ~clLast'.ok
            /\ dials' = dials + 1
            /\ dials' \notin open'
            /\ ListenerCount' = ListenerCount
            /\ pingers' = pingers
            /\ isRunning' = isRunning]_vars
    /\ [][(ConnectStep /\ clLast'.err = "before") =>
            /\ ~clLast'.ok
            /\ attempts' = attempts
            /\ dials' = dials
            /\ retryCount' = retryCount
            /\ conn' = conn
            /\ open' = open
            /\ ListenerCount' = ListenerCount
            /\ pingers' = pingers]_vars

\* A reconnect whose after-connect hook failed, on a client that has both hooks.
C32_Witness ==
    /\ clLast.op = "reconnect"
    /\ clLast.err = "after"
    /\ beforeConnHandler
    /\ conn # 0
    /\ conn \notin open


\* ------------------------------------------------------------------ IsConnected
\* IsConnected(), and GetStats()["is_connected"].
IsConnected == isRunning /\ conn # 0

\* C33: IsConnected() is true only when the client has been started and holds a
\* transport that has not been closed.
C33_IsConnectedMeansLive ==
    IsConnected => (starts > 0 /\ conn \in open)


\* ------------------------------------------------------------------ cleanup monitor
\* NewOptimizedHub: cleanupBatch is a channel of capacity 10.
CleanupBatchCap == 10

\* A transport goes half-open: the peer is gone without closing, reads block
\* until the read deadline and writes fail.
halfOpen(k) ==
    /\ monFrame
    /\ k \in loops
    /\ conns[k].open
    /\ k \notin dead
    /\ dead' = dead \cup {k}
    /\ UNCHANGED <<hubVars, probes, cleanupBatch>>

\* A write to transport k fails.
WriteFails(k) == ~conns[k].open \/ k \in dead

\* A probe goroutine of optimizedCleanup writes its ping; on an error it offers
\* the id to cleanupBatch without blocking, and only logs when the channel is full.
probeWrite(k) ==
    /\ monFrame
    /\ k \in probes
    /\ probes' = probes \ {k}
    /\ cleanupBatch' = IF WriteFails(k) /\ Len(cleanupBatch) < CleanupBatchCap
                       THEN Append(cleanupBatch, conns[k].ID)
                       ELSE cleanupBatch
    /\ UNCHANGED <<hubVars, dead>>

\* A registry with its listen loops and the cleanup monitor, over time.
OptMonitorNext ==
    \/ \E id \in ConnIDs : Len(conns) < MaxMonitorConns /\ OptimizedAddCheck(id, "user")
    \/ \E k \in adds : OptimizedAddInsert(k)
    \/ \E k \in loops, kind \in FrameKinds : k \notin dead /\ optimizedListenRead(k, kind)
    \/ \E h \in rx.handling : handlerReturn(h)
    \/ \E k \in loops : transportFails(k)
    \/ \E k \in loops : halfOpen(k)
    \/ \E k \in loops : ~Handling(k) /\ optimizedListenExit(k)
    \/ optimizedCleanup
    \/ \E k \in probes : probeWrite(k)
    \/ Tick

SpecOptMonitor == InitOptBroadcast /\ [][OptMonitorNext]_vars

\* The goroutines run: a started probe writes, a loop whose read has failed
\* leaves, the monitor's ticker fires. Time itself need not advance.
OptMonitorFairness ==
    /\ WF_vars(\E k \in probes : probeWrite(k))
    /\ WF_vars(\E k \in loops : ~Handling(k) /\ optimizedListenExit(k))
    /\ WF_vars(\E h \in rx.handling : handlerReturn(h))
    /\ WF_vars(optimizedCleanup)

SpecOptMonitorLive == InitOptBroadcast /\ [][OptMonitorNext]_vars /\ OptMonitorFairness

\* C34: a connection whose probe write has failed is removed from the registry
\* because of that failure, without its LastSeen having to exceed
\* ConnectionTimeout: it is removed even if time stands still.
C34_ProbeFailureRemoves ==
    \A id \in ConnIDs :
        (\E i \in DOMAIN cleanupBatch : cleanupBatch[i] = id) ~> (id \notin DOMAIN connections)


\* The instant transport k last received a frame of any kind, or was admitted.
LastHeard(k) ==
    IF k \in DOMAIN rx.heard /\ rx.heard[k] > conns[k].LastSeen
    THEN rx.heard[k]
    ELSE conns[k].LastSeen

\* C35: the cleanup monitor removes a connection only if it has received no
\* message for longer than ConnectionTimeout or writes to its transport fail.
C35_MonitorRemovesOnlyStale ==
    [][\A id \in DOMAIN connections :
          (hubLast'.op = "optimizedCleanup" /\ loops' = loops /\ id \notin DOMAIN connections')
          => \/ WriteFails(connections[id])
             \/ now - LastHeard(connections[id]) > ConnectionTimeout]_vars


\* ------------------------------------------------------------------ active count
\* No add is between its two critical sections, and every running listen loop
\* belongs to the Connection registered under its id (no loop has its cleanup
\* still to run for a Connection that is gone).
Quiescent ==
    /\ adds = {}
    /\ \A k \in loops : conns[k].ID \in DOMAIN connections /\ connections[conns[k].ID] = k
    /\ \A id \in DOMAIN connections : connections[id] \in loops

\* C36: in every quiescent state ActiveConnections equals the number of
\* registered connections, and it is never negative.
C36_ActiveCountMatchesRegistry ==
    /\ stats.ActiveConnections >= 0
    /\ Quiescent => stats.ActiveConnections = GetConnectionCount


\* ------------------------------------------------------------------ loop cleanup
\* C37: the cleanup of a listen loop removes only the Connection the loop was
\* started for: the registry entries of other Connections stay, with their
\* transports open.
C37_LoopRemovesOnlyItsOwn ==
    [][\A k \in loops : k \notin loops' =>
          \A id \in DOMAIN connections :
              connections[id] # k =>
                  /\ id \in DOMAIN connections'
                  /\ connections'[id] = connections[id]
                  /\ conns'[connections[id]].open = conns[connections[id]].open]_vars


\* ------------------------------------------------------------------ concurrent sends (spec.md 4.1, 5)
\* SendMessage, the lookup under the read lock: NotFound when the id is absent,
\* else the call holds the Connection and goes on to write.
SendMessageLookup(c, connID) ==
    /\ sendFrame
    /\ calls[c].pc = "idle"
    /\ calls' = [calls EXCEPT ![c] =
                    IF connID \in DOMAIN connections
                    THEN [pc |-> "write", id |-> connID, k |-> connections[connID],
                          seen |-> sent.MessagesSent, result |-> ""]
                    ELSE [pc |-> "done", id |-> connID, k |-> 0,
                          seen |-> sent.MessagesSent, result |-> "NotFound"]]
    /\ UNCHANGED <<hubVars, svcVars>>

\* SendMessage, the write under its deadline: a failed write removes the
\* connection (if it is still the registered one) and returns SendFailed.
SendMessageWrite(c) ==
    /\ sendFrame
    /\ calls[c].pc = "write"
    /\ LET k == calls[c].k
           id == calls[c].id
       IN  IF conns[k].open
           THEN /\ calls' = [calls EXCEPT ![c].pc = "count"]
                /\ sent' = [sent EXCEPT !.writes = @ + 1]
                /\ UNCHANGED <<connections, conns, loops, stats, events>>
           ELSE /\ calls' = [calls EXCEPT ![c].pc = "done", ![c].result = "SendFailed"]
                /\ sent' = [sent EXCEPT !.writes = @ + 1]
                /\ IF id \in DOMAIN connections /\ connections[id] = k
                   THEN Removal(id)
                   ELSE UNCHANGED <<connections, conns, loops, stats, events>>
    /\ UNCHANGED <<hubConfig, adds, now, bc, hubLast, broadcastChan, offered, fanned,
                   hubRun, pool>>

\* A counter update that stores the value the call saw at its lookup, plus one.
SendMessageCountStale(c) ==
    /\ sendFrame
    /\ calls[c].pc = "count"
    /\ sent' = [sent EXCEPT !.MessagesSent = calls[c].seen + 1]
    /\ calls' = [calls EXCEPT ![c].pc = "done", ![c].result = "ok"]
    /\ UNCHANGED <<hubVars, broadcastChan, offered, fanned, hubRun, pool>>

\* SendMessage, after a successful write: one atomic add to the sent-message
\* counter, then return nil.
SendMessageCount(c) ==
    /\ sendFrame
    /\ calls[c].pc = "count"
    /\ sent' = [sent EXCEPT !.MessagesSent = @ + 1]
    /\ calls' = [calls EXCEPT ![c].pc = "done", ![c].result = "ok"]
    /\ UNCHANGED <<hubVars, broadcastChan, offered, fanned, hubRun, pool>>

\* A Hub whose callers send concurrently while connections come and go.
HubConcurrentSendNext ==
    \/ \E id \in ConnIDs : Len(conns) < MaxSendConns /\ AddConnection(id, "user")
    \/ \E id \in ConnIDs : RemoveConnection(id)
    \/ \E k \in loops : transportFails(k)
    \/ \E c \in Callers, id \in ConnIDs : SendMessageLookup(c, id)
    \/ \E c \in Callers : SendMessageWrite(c)
    \/ \E c \in Callers : SendMessageCount(c)

SpecHubConcurrentSend == InitHubDispatch /\ [][HubConcurrentSendNext]_vars

\* The calls that have returned with the given result.
Returned(result) == {c \in Callers : calls[c].pc = "done" /\ calls[c].result = result}

\* C38: the sent-message counter is exact under concurrency. Once every call
\* has returned, the counter equals the number of calls that returned nil; at
\* any time it counts no call that failed or has not written yet.
C38_SentCounterExact ==
    /\ (\A c \in Callers : calls[c].pc \in {"idle", "done"})
            => sent.MessagesSent = Cardinality(Returned("ok"))
    /\ sent.MessagesSent <= Cardinality(Returned("ok"))

\* Two calls that overlapped (both looked the id up before either counted) have
\* returned nil.
C38_Witness ==
    /\ Cardinality(Returned("ok")) = 2
    /\ \A c \in Returned("ok") : calls[c].seen = 0
    /\ sent.MessagesSent = 2


\* ------------------------------------------------------------------ client configuration
\* The values a caller puts into a field of Config.
ConfigValues == {0 - 1, 0, 1}

Configs ==
    [MaxRetries : ConfigValues, RetryDelay : ConfigValues,
     PingInterval : ConfigValues, PingTimeout : ConfigValues]

\* Config.Validate: the error it returns, "" for nil.
Validate(c) ==
    IF c.RetryDelay < 0 THEN "RetryDelay must be non-negative"
    ELSE IF c.PingInterval <= 0 THEN "PingInterval must be positive"
    ELSE IF c.PingTimeout <= 0 THEN "PingTimeout must be positive"
    ELSE ""

\* Websocket.SetConfig: install the configuration.
WebsocketSetConfig(c) ==
    /\ clFrame
    /\ config' = c
    /\ clLast' = [op |-> "SetConfig", ok |-> TRUE]
    /\ UNCHANGED <<beforeConnHandler, afterConnHandler, conn, open, isRunning, retryCount,
                   ctxDone, listeners, pingers, reconnects, messageCount, closing, closePC,
                   dials, attempts, starts>>

\* A client that is configured and started.
ClConfigNext ==
    \/ \E c \in Configs : WebsocketSetConfig(c)
    \/ Start

SpecClientConfig == InitClientHooks /\ [][ClConfigNext]_vars

\* The constraints on a Config: MaxRetries >= 0, RetryDelay >= 0,
\* PingInterval > 0, PingTimeout > 0.
ValidConfig(c) ==
    /\ c.MaxRetries >= 0
    /\ c.RetryDelay >= 0
    /\ c.PingInterval > 0
    /\ c.PingTimeout > 0

\* C39: a Config is validated when it is installed: the client's active
\* configuration always satisfies the four constraints, and Validate accepts
\* it exactly if it does.
C39_ConfigValidated ==
    /\ ValidConfig(config)
    /\ (Validate(config) = "") <=> ValidConfig(config)


\* ------------------------------------------------------------------ RateLimiter gates
\* A step that is a call of SetLimit, RemoveLimit or Allow on id.
IsLimiterCall(id) == rlLast'.op \in {"SetLimit", "RemoveLimit", "Allow"} /\ rlLast'.id = id

\* C40: gates are per id and fully replaced or discarded. Without a gate Allow
\* returns true, and RemoveLimit leaves no gate; SetLimit installs a fresh gate
\* without a permit, so a permit left on the replaced gate is never granted; a
\* call on one id leaves the gate of every other id as it was.
C40_GatesPerIdReplaced ==
    /\ [][\A id \in ConnIDs :
            /\ (IsAllow(id) /\ id \notin DOMAIN limits) => rlLast'.result
            /\ (rlLast'.op = "RemoveLimit" /\ rlLast'.id = id) => id \notin DOMAIN limits'
            /\ (rlLast'.op = "SetLimit" /\ rlLast'.id = id) =>
                    /\ id \in DOMAIN limits'
                    /\ limits'[id].C = 0
                    /\ limits'[id].next = rlNow + limits'[id].interval
            /\ (IsAllow(id) /\ id \in DOMAIN limits /\ rlLast'.result) =>
                    /\ limits[id].C = 1
                    /\ rlTicked[id]]_vars
    /\ [][\A id \in ConnIDs : IsLimiterCall(id) =>
            \A other \in ConnIDs \ {id} :
                /\ (other \in DOMAIN limits') <=> (other \in DOMAIN limits)
                /\ other \in DOMAIN limits => limits'[other] = limits[other]]_vars

\* The gate of "a" has been installed at this instant, later than time 0, and
\* has refused a call, while the gate of "b" still holds its permit.
C40_Witness ==
    /\ rlLast = [op |-> "Allow", id |-> "a", result |-> FALSE]
    /\ "a" \in DOMAIN limits
    /\ limits["a"].C = 0
    /\ limits["a"].next = rlNow + limits["a"].interval
    /\ "b" \in DOMAIN limits
    /\ limits["b"].C = 1
    /\ rlNow > 0

====
